---- MODULE Spec2Model ----
(***************************************************************************)
(* A model of the markup core of kiln: the directive scanner               *)
(* (directive/parser.rs), the code fence classifier (markdown.rs), the     *)
(* directive pipeline (render/pipeline.rs) and heading id deduplication    *)
(* (render/markdown.rs).                                                   *)
(*                                                                         *)
(* Text is a sequence of one-character strings; byte offsets are 0-based   *)
(* as in the source, and a range a..b is the half-open span [a, b).        *)
(***************************************************************************)
EXTENDS Integers, Sequences, FiniteSets, TLC

\* ------------------------------------------------------------------------
\* Bounds of the model
\* ------------------------------------------------------------------------

\* Largest number of lines of a scanned document.
MaxLines == 4

\* ------------------------------------------------------------------------
\* Option values and text helpers (std::option, str)
\* ------------------------------------------------------------------------

\* The two code fence characters. The backtick is written as a token, since a
\* string of the model cannot hold one.
Backtick == "BT"

Tilde == "~"

None == [tag |-> "None"]

Some(x) == [tag |-> "Some", val |-> x]

\* char::is_whitespace, on the characters the model uses.
is_whitespace(c) == c \in {" ", "\t", "\n", "\r"}

Min(a, b) == IF a <= b THEN a ELSE b

\* &s[a..b] with 0-based byte offsets.
Slice(s, a, b) == SubSeq(s, a + 1, b)

\* &s[a..]
SliceFrom(s, a) == SubSeq(s, a + 1, Len(s))

\* s.bytes().take_while(|&b| b == c).count()
RECURSIVE take_while_count(_, _)
take_while_count(s, c) ==
    IF s # <<>> /\ Head(s) = c THEN 1 + take_while_count(Tail(s), c) ELSE 0

\* str::trim_start
RECURSIVE trim_start(_)
trim_start(s) ==
    IF s # <<>> /\ is_whitespace(Head(s)) THEN trim_start(Tail(s)) ELSE s

\* str::trim_end
RECURSIVE trim_end(_)
trim_end(s) ==
    IF s # <<>> /\ is_whitespace(s[Len(s)])
    THEN trim_end(SubSeq(s, 1, Len(s) - 1))
    ELSE s

\* str::trim
trim(s) == trim_end(trim_start(s))

\* str::strip_suffix(c).unwrap_or(s)
strip_suffix_or(s, c) ==
    IF s # <<>> /\ s[Len(s)] = c THEN SubSeq(s, 1, Len(s) - 1) ELSE s

\* str::contains(c)
contains(s, c) == \E i \in 1..Len(s) : s[i] = c

\* content.split('\n'): the segments between newlines; a text that ends in a
\* newline has a final empty segment, and the empty text has one empty segment.
RECURSIVE split_newline(_)
split_newline(s) ==
    IF ~contains(s, "\n") THEN <<s>>
    ELSE LET p == CHOOSE i \in 1..Len(s) :
                      s[i] = "\n" /\ \A j \in 1..(i - 1) : s[j] # "\n"
         IN  <<SubSeq(s, 1, p - 1)>> \o split_newline(SubSeq(s, p + 1, Len(s)))

\* ------------------------------------------------------------------------
\* Code fence classifier (markdown.rs)
\* ------------------------------------------------------------------------

\* Largest indentation a code fence may have.
MaxFenceIndent == 3

\* Smallest run of backticks or tildes that makes a code fence.
MinCodeFence == 3

strip_fence_indent(line) ==
    LET indent == take_while_count(line, " ")
    IN  IF indent <= MaxFenceIndent THEN Some(SliceFrom(line, indent)) ELSE None

detect_opening_code_fence(line) ==
    LET r == strip_fence_indent(line)
    IN  IF r = None THEN None
        ELSE LET rest == r.val
             IN  IF rest = <<>> THEN None
                 ELSE LET ch    == Head(rest)
                          count == take_while_count(rest, ch)
                      IN  IF ch # Backtick /\ ch # Tilde THEN None
                          ELSE IF count < MinCodeFence THEN None
                          ELSE IF ch = Backtick /\ contains(SliceFrom(rest, count), Backtick)
                               THEN None
                          ELSE Some([ch |-> ch, count |-> count])

\* Variant of is_closing_code_fence that accepts any run that could open a
\* fence, whatever the length of the opening run.
is_closing_code_fence_any_length(line, fence_char, min_count) ==
    LET r == strip_fence_indent(line)
    IN  IF r = None THEN FALSE
        ELSE LET rest  == r.val
                 count == take_while_count(rest, fence_char)
             IN  count >= MinCodeFence /\ trim(SliceFrom(rest, count)) = <<>>

is_closing_code_fence(line, fence_char, min_count) ==
    LET r == strip_fence_indent(line)
    IN  IF r = None THEN FALSE
        ELSE LET rest  == r.val
                 count == take_while_count(rest, fence_char)
             IN  count >= min_count /\ trim(SliceFrom(rest, count)) = <<>>

\* ------------------------------------------------------------------------
\* Directive scanner (directive/parser.rs)
\* ------------------------------------------------------------------------

\* Smallest run of colons that makes a directive fence.
MinColons == 3

\* Variant of count_leading_colons that skips leading whitespace first.
count_leading_colons_after_indent(line) ==
    LET count == take_while_count(trim_start(line), ":")
    IN  IF count >= MinColons THEN Some(count) ELSE None

count_leading_colons(line) ==
    LET count == take_while_count(line, ":")
    IN  IF count >= MinColons THEN Some(count) ELSE None

\* Variant of extract_body that takes the whole text as the body.
extract_body_whole(content, start, end) == content

\* Variant of extract_body that strips the newline and keeps a carriage return.
extract_body_keep_cr(content, start, end) ==
    IF start >= end THEN <<>>
    ELSE strip_suffix_or(Slice(content, start, end), "\n")

extract_body(content, start, end) ==
    IF start >= end THEN <<>>
    ELSE strip_suffix_or(strip_suffix_or(Slice(content, start, end), "\n"), "\r")

\* The scanner's local state before the first line.
scan_start == [offset |-> 0, stack |-> <<>>, code_fence |-> None, blocks |-> <<>>]

\* Variant of next_line_offset without the cap at the length of the text.
next_line_offset_uncapped(content, offset, raw_line) ==
    offset + Len(raw_line) + 1

\* (offset + raw_line.len() + 1).min(content.len())
next_line_offset(content, offset, raw_line) ==
    Min(offset + Len(raw_line) + 1, Len(content))

\* Variant of closes_top that ignores the colon counts.
closes_top_any_count(stk, colon_count) == stk # <<>>

\* Variant of closes_top that asks for strictly more colons than the opener.
closes_top_strict(stk, colon_count) ==
    stk # <<>> /\ stk[Len(stk)].colon_count < colon_count

\* The condition under which a closing fence of colon_count colons pops.
closes_top(stk, colon_count) ==
    stk # <<>> /\ stk[Len(stk)].colon_count <= colon_count

\* The block emitted for the popped frame `entry` by the closing line that
\* starts at `offset` and ends at `next_offset`. A block keeps the text after
\* the opening colons (head), from which the source derives its kind, id and
\* classes.
close_block(content, entry, offset, next_offset) ==
    [head  |-> entry.head,
     body  |-> extract_body(content, entry.body_start, offset),
     start |-> entry.range_start,
     end   |-> next_offset]

\* The frame pushed for an opening fence line.
open_frame(colon_count, after_colons, offset, next_offset) ==
    [colon_count |-> colon_count,
     head        |-> after_colons,
     body_start  |-> next_offset,
     range_start |-> offset]

\* One iteration of the loop of parse_directives over `raw_line`.
scan_line(content, st, raw_line) ==
    LET next_offset == next_line_offset(content, st.offset, raw_line)
        line        == strip_suffix_or(raw_line, "\r")
        advanced    == [st EXCEPT !.offset = next_offset]
    IN  IF st.code_fence # None
        THEN IF is_closing_code_fence(line, st.code_fence.val.ch,
                                      st.code_fence.val.count)
             THEN [advanced EXCEPT !.code_fence = None]
             ELSE advanced
        ELSE IF detect_opening_code_fence(line) # None
        THEN [advanced EXCEPT !.code_fence = detect_opening_code_fence(line)]
        ELSE IF count_leading_colons(line) # None
        THEN LET colon_count  == count_leading_colons(line).val
                 after_colons == trim(SliceFrom(line, colon_count))
                 depth        == Len(st.stack)
             IN  IF after_colons = <<>>
                 THEN IF closes_top(st.stack, colon_count)
                      THEN [advanced EXCEPT
                              !.stack  = SubSeq(st.stack, 1, depth - 1),
                              !.blocks = Append(st.blocks,
                                  close_block(content, st.stack[depth],
                                              st.offset, next_offset))]
                      ELSE advanced
                 ELSE [advanced EXCEPT
                         !.stack = Append(st.stack,
                             open_frame(colon_count, after_colons,
                                        st.offset, next_offset))]
        ELSE advanced

\* blocks.sort_by_key(|b| b.range.start): a stable insertion sort.
RECURSIVE insert_by_start(_, _)
insert_by_start(sorted, b) ==
    IF sorted = <<>> THEN <<b>>
    ELSE IF sorted[Len(sorted)].start <= b.start THEN Append(sorted, b)
    ELSE Append(insert_by_start(SubSeq(sorted, 1, Len(sorted) - 1), b),
                sorted[Len(sorted)])

RECURSIVE sort_by_start(_)
sort_by_start(blocks) ==
    IF blocks = <<>> THEN <<>>
    ELSE insert_by_start(sort_by_start(SubSeq(blocks, 1, Len(blocks) - 1)),
                         blocks[Len(blocks)])

RECURSIVE scan_lines(_, _, _)
scan_lines(content, st, lines) ==
    IF lines = <<>> THEN st
    ELSE scan_lines(content, scan_line(content, st, Head(lines)), Tail(lines))

\* Variant of returned_blocks that closes the open frames at the end of the
\* input instead of dropping them.
RECURSIVE returned_blocks_closing_open(_, _, _)
returned_blocks_closing_open(content, blks, stk) ==
    IF stk = <<>> THEN sort_by_start(blks)
    ELSE returned_blocks_closing_open(content,
             Append(blks, close_block(content, stk[Len(stk)],
                                      Len(content), Len(content))),
             SubSeq(stk, 1, Len(stk) - 1))

\* Variant of returned_blocks that returns the blocks in emission order.
returned_blocks_unsorted(content, blks, stk) == blks

\* What parse_directives returns when the loop ends with these blocks and
\* this stack: the blocks sorted by range start; the open frames are dropped.
returned_blocks(content, blks, stk) == sort_by_start(blks)

\* parse_directives as a function of the content.
parse_directives(content) ==
    LET st == scan_lines(content, scan_start, split_newline(content))
    IN  returned_blocks(content, st.blocks, st.stack)

\* ------------------------------------------------------------------------
\* Characters
\* ------------------------------------------------------------------------

UpperLetters ==
    <<"A", "B", "C", "D", "E", "F", "G", "H", "I", "J", "K", "L", "M",
      "N", "O", "P", "Q", "R", "S", "T", "U", "V", "W", "X", "Y", "Z">>

LowerLetters ==
    <<"a", "b", "c", "d", "e", "f", "g", "h", "i", "j", "k", "l", "m",
      "n", "o", "p", "q", "r", "s", "t", "u", "v", "w", "x", "y", "z">>

Digits == <<"0", "1", "2", "3", "4", "5", "6", "7", "8", "9">>

Range(f) == { f[i] : i \in DOMAIN f }

\* char::is_alphanumeric, on the characters the model uses.
is_alphanumeric(ch) ==
    ch \in Range(UpperLetters) \cup Range(LowerLetters) \cup Range(Digits)

\* char::to_ascii_lowercase
to_ascii_lowercase(ch) ==
    IF ch \in Range(UpperLetters)
    THEN LowerLetters[CHOOSE i \in DOMAIN UpperLetters : UpperLetters[i] = ch]
    ELSE ch

\* ------------------------------------------------------------------------
\* Directive head parser (directive/parser.rs, directive.rs)
\* ------------------------------------------------------------------------

\* s.find(char::is_whitespace).unwrap_or(s.len())
RECURSIVE find_whitespace(_)
find_whitespace(s) ==
    IF s = <<>> \/ is_whitespace(Head(s)) THEN 0 ELSE 1 + find_whitespace(Tail(s))

\* s.find(c), as an option of a 0-based offset.
find_char(s, c) ==
    IF contains(s, c)
    THEN Some((CHOOSE i \in 1..Len(s) :
                   s[i] = c /\ \A j \in 1..(i - 1) : s[j] # c) - 1)
    ELSE None

RECURSIVE scan_quoted_from(_, _, _)
\* The loop of scan_quoted_value from byte i on.
scan_quoted_from(s, i, has_escapes) ==
    IF i >= Len(s) THEN [end |-> Len(s), has_escapes |-> has_escapes]
    ELSE IF s[i + 1] = "\\" /\ i + 1 < Len(s) /\ s[i + 2] \in {"\"", "\\"}
    THEN scan_quoted_from(s, i + 2, TRUE)
    ELSE IF s[i + 1] = "\"" THEN [end |-> i, has_escapes |-> has_escapes]
    ELSE scan_quoted_from(s, i + 1, has_escapes)

\* Variant of scan_quoted_value that ends the value at the first quote,
\* escaped or not.
scan_quoted_value_first_quote(s) ==
    [end         |-> IF find_char(s, "\"") = None THEN Len(s)
                     ELSE find_char(s, "\"").val,
     has_escapes |-> contains(s, "\\")]

scan_quoted_value(s) == scan_quoted_from(s, 0, FALSE)

take_token(s) == Slice(s, 0, find_whitespace(s))

\* Variant of take_attr_token that ends every token at the next whitespace.
take_attr_token_to_whitespace(s) ==
    [token |-> Slice(s, 0, find_whitespace(s)),
     rest  |-> trim_start(SliceFrom(s, find_whitespace(s)))]

take_attr_token(s) ==
    LET ws == find_whitespace(s)
        eq == find_char(s, "=")
        bare == [token |-> Slice(s, 0, ws), rest |-> trim_start(SliceFrom(s, ws))]
    IN  IF eq # None /\ eq.val < ws
        THEN LET after_eq == SliceFrom(s, eq.val + 1)
             IN  IF after_eq # <<>> /\ Head(after_eq) = "\""
                 THEN LET quoted   == Tail(after_eq)
                          end      == scan_quoted_value(quoted).end
                          consumed == eq.val + 1 + 1 + end
                                      + (IF end < Len(quoted) THEN 1 ELSE 0)
                      IN  [token |-> Slice(s, 0, consumed),
                           rest  |-> trim_start(SliceFrom(s, consumed))]
                 ELSE bare
        ELSE bare

RECURSIVE pandoc_attrs_from(_, _, _, _)
\* The loop of parse_pandoc_attrs over the rest of the input.
pandoc_attrs_from(scan, id, classes, args) ==
    IF scan = <<>> THEN [name |-> <<>>, args |-> args, id |-> id, classes |-> classes]
    ELSE IF Head(scan) = "#"
    THEN LET after_hash == Tail(scan)
             token      == take_token(after_hash)
         IN  pandoc_attrs_from(trim_start(SliceFrom(after_hash, Len(token))),
                 IF id = None /\ token # <<>> THEN Some(token) ELSE id,
                 classes, args)
    ELSE IF Head(scan) = "."
    THEN LET after_dot == Tail(scan)
             token     == take_token(after_dot)
         IN  pandoc_attrs_from(trim_start(SliceFrom(after_dot, Len(token))),
                 id,
                 IF token # <<>> THEN Append(classes, token) ELSE classes,
                 args)
    ELSE LET t == take_attr_token(scan)
         IN  pandoc_attrs_from(t.rest, id, classes,
                 (IF args # <<>> THEN args \o <<" ">> ELSE args) \o t.token)

parse_pandoc_attrs(input) == pandoc_attrs_from(input, None, <<>>, <<>>)

\* Variant of parse_directive_head that folds the name to lowercase.
parse_directive_head_lowercase(after_colons) ==
    LET text  == trim(after_colons)
        brace == text # <<>> /\ Head(text) = "{"
        pos   == find_whitespace(text)
        name  == IF brace THEN <<>>
                 ELSE [i \in 1..pos |-> to_ascii_lowercase(text[i])]
        rest  == IF brace THEN text ELSE trim_start(SliceFrom(text, pos))
    IN  IF rest # <<>> /\ Head(rest) = "{" /\ Len(rest) >= 2 /\ rest[Len(rest)] = "}"
        THEN [parse_pandoc_attrs(trim(SubSeq(rest, 2, Len(rest) - 1)))
                  EXCEPT !.name = name]
        ELSE [name |-> name, args |-> <<>>, id |-> None, classes |-> <<>>]

parse_directive_head(after_colons) ==
    LET text  == trim(after_colons)
        brace == text # <<>> /\ Head(text) = "{"
        pos   == find_whitespace(text)
        name  == IF brace THEN <<>> ELSE Slice(text, 0, pos)
        rest  == IF brace THEN text ELSE trim_start(SliceFrom(text, pos))
    IN  IF rest # <<>> /\ Head(rest) = "{" /\ Len(rest) >= 2 /\ rest[Len(rest)] = "}"
        THEN [parse_pandoc_attrs(trim(SubSeq(rest, 2, Len(rest) - 1)))
                  EXCEPT !.name = name]
        ELSE [name |-> name, args |-> <<>>, id |-> None, classes |-> <<>>]

\* ------------------------------------------------------------------------
\* Directive pipeline (render/pipeline.rs, directive/div.rs, render.rs)
\* ------------------------------------------------------------------------

\* Variant of keeps_block that drops a block that starts where the kept one
\* ends.
keeps_block_strict(start, outer_end) == start > outer_end

\* The test of top_level_blocks for keeping a block.
keeps_block(start, outer_end) == start >= outer_end

RECURSIVE top_level_from(_, _)
\* The loop of top_level_blocks over the rest of the blocks.
top_level_from(blks, outer_end) ==
    IF blks = <<>> THEN <<>>
    ELSE IF keeps_block(Head(blks).start, outer_end)
    THEN <<Head(blks)>> \o top_level_from(Tail(blks), Head(blks).end)
    ELSE top_level_from(Tail(blks), outer_end)

top_level_blocks(blks) == top_level_from(blks, 0)

RECURSIVE escape_html(_)
escape_html(input) ==
    IF input = <<>> THEN <<>>
    ELSE (CASE Head(input) = "&"  -> <<"&", "a", "m", "p", ";">>
            [] Head(input) = "<"  -> <<"&", "l", "t", ";">>
            [] Head(input) = ">"  -> <<"&", "g", "t", ";">>
            [] Head(input) = "\"" -> <<"&", "q", "u", "o", "t", ";">>
            [] Head(input) = "'"  -> <<"&", "#", "3", "9", ";">>
            [] OTHER              -> <<Head(input)>>)
         \o escape_html(Tail(input))

RECURSIVE join_space(_)
\* class_parts.join(" ")
join_space(parts) ==
    IF parts = <<>> THEN <<>>
    ELSE IF Len(parts) = 1 THEN Head(parts)
    ELSE Head(parts) \o <<" ">> \o join_space(Tail(parts))

render_div(name, id, classes, body_html) ==
    LET has_attrs == id # None \/ name # <<>> \/ classes # <<>>
        id_attr == IF id = None THEN <<>>
                   ELSE <<" ", "i", "d", "=", "\"">> \o escape_html(id.val) \o <<"\"">>
        class_parts == (IF name # <<>> THEN <<escape_html(name)>> ELSE <<>>)
                       \o [i \in 1..Len(classes) |-> escape_html(classes[i])]
        class_attr == IF class_parts = <<>> THEN <<>>
                      ELSE <<" ", "c", "l", "a", "s", "s", "=", "\"">>
                           \o join_space(class_parts) \o <<"\"">>
    IN  IF ~has_attrs THEN body_html
        ELSE <<"<", "d", "i", "v">> \o id_attr \o class_attr \o <<">">>
             \o body_html \o <<"<", "/", "d", "i", "v", ">", "\n">>

\* The HTML of a block with this head around the HTML of its body. The
\* directive names of the modelled documents are not callout names, so this
\* is the Unknown arm of the dispatch.
render_directive_block(head, body_html) ==
    LET h == parse_directive_head(head)
    IN  render_div(h.name, h.id, h.classes, body_html)

\* format!("\n{html}\n")
padded_html(html) == <<"\n">> \o html \o <<"\n">>

\* String::replace_range(start..end, with)
replace_range(s, start, end, with) ==
    SubSeq(s, 1, start) \o with \o SubSeq(s, end + 1, Len(s))

RECURSIVE reverse(_)
reverse(s) == IF s = <<>> THEN <<>> ELSE Append(reverse(Tail(s)), Head(s))

\* Variant of replacement_order that walks the blocks left to right.
replacement_order_forward(top_level) == top_level

\* top_level.into_iter().rev(): the order in which the blocks are replaced.
replacement_order(top_level) == reverse(top_level)

\* ------------------------------------------------------------------------
\* Heading ids (render/markdown.rs)
\* ------------------------------------------------------------------------

RECURSIVE slugify_from(_, _, _)
\* The loop of slugify over the rest of the text.
slugify_from(text, result, prev_dash) ==
    IF text = <<>> THEN result
    ELSE IF is_alphanumeric(Head(text))
    THEN slugify_from(Tail(text),
                      Append(result, to_ascii_lowercase(Head(text))), FALSE)
    ELSE IF ~prev_dash THEN slugify_from(Tail(text), Append(result, "-"), TRUE)
    ELSE slugify_from(Tail(text), result, prev_dash)

slugify(text) == strip_suffix_or(slugify_from(text, <<>>, TRUE), "-")

RECURSIVE decimal(_)
\* The decimal digits of n, as format! writes them.
decimal(n) ==
    IF n < 10 THEN <<Digits[n + 1]>>
    ELSE Append(decimal(n \div 10), Digits[(n % 10) + 1])

\* format!("{id}-{n}")
suffixed_id(id, n) == id \o <<"-">> \o decimal(n)

\* Variant of dedup_candidate that returns the first suffixed candidate
\* without looking it up.
dedup_candidate_unchecked(used, id, n) == suffixed_id(id, n)

RECURSIVE dedup_candidate(_, _, _)
\* The loop of deduplicate_id from suffix n on: the first unused candidate.
dedup_candidate(used, id, n) ==
    IF suffixed_id(id, n) \notin used THEN suffixed_id(id, n)
    ELSE dedup_candidate(used, id, n + 1)

\* Variant of deduplicate_id that starts the suffixes at 2.
deduplicate_id_from_two(used, id) ==
    IF id \notin used THEN id ELSE dedup_candidate(used, id, 2)

\* Variant of deduplicate_id that numbers every id, also an unused one.
deduplicate_id_always_numbered(used, id) == dedup_candidate(used, id, 1)

\* The id that deduplicate_id returns; it is then a member of used.
deduplicate_id(used, id) ==
    IF id \notin used THEN id ELSE dedup_candidate(used, id, 1)

\* The raw id of a heading: its explicit id if it has one, else the slug of
\* its text; "section" when that is empty.
raw_heading_id(explicit_id, text) ==
    LET raw_id == IF explicit_id # None THEN explicit_id.val ELSE slugify(text)
    IN  IF raw_id = <<>> THEN <<"s", "e", "c", "t", "i", "o", "n">> ELSE raw_id

\* ------------------------------------------------------------------------
\* render_markdown (render/markdown.rs)
\* The CommonMark parser lies outside the repository. Its events are
\* modelled for the block structure the pipeline relies on: a blank line
\* ends a block, a line of 1 to 6 `#` and a space is a heading, a line that
\* starts with `<` opens an HTML block that runs to the next blank line, and
\* any other lines form paragraphs.
\* ------------------------------------------------------------------------

\* The level of an ATX heading line, 0 for any other line.
heading_level(line) ==
    LET n == take_while_count(line, "#")
    IN  IF n >= 1 /\ n <= 6 /\ (Len(line) = n \/ line[n + 1] = " ")
        THEN n ELSE 0

md_block(kind, level, text) == [kind |-> kind, level |-> level, text |-> text]

\* The blocks read so far, with the open block closed.
md_flush(acc, cur) == IF cur = None THEN acc ELSE Append(acc, cur.val)

RECURSIVE md_blocks_from(_, _, _)
\* Parser::new_ext(content, options), as the sequence of blocks of the rest
\* of the lines; cur is the paragraph or HTML block that is still open.
md_blocks_from(ls, cur, acc) ==
    IF ls = <<>> THEN md_flush(acc, cur)
    ELSE LET line == strip_suffix_or(Head(ls), "\r")
         IN  IF trim(line) = <<>>
             THEN md_blocks_from(Tail(ls), None, md_flush(acc, cur))
             ELSE IF cur # None /\ cur.val.kind = "html"
             THEN md_blocks_from(Tail(ls),
                      Some(md_block("html", 0, cur.val.text \o <<"\n">> \o line)),
                      acc)
             ELSE IF heading_level(line) > 0
             THEN md_blocks_from(Tail(ls), None,
                      Append(md_flush(acc, cur),
                             md_block("heading", heading_level(line),
                                      trim(SliceFrom(line, heading_level(line))))))
             ELSE IF Head(line) = "<"
             THEN md_blocks_from(Tail(ls), Some(md_block("html", 0, line)),
                                 md_flush(acc, cur))
             ELSE IF cur # None
             THEN md_blocks_from(Tail(ls),
                      Some(md_block("para", 0,
                                    cur.val.text \o <<"\n">> \o trim(line))),
                      acc)
             ELSE md_blocks_from(Tail(ls), Some(md_block("para", 0, trim(line))),
                                 acc)

md_blocks(content) == md_blocks_from(split_newline(content), None, <<>>)

VARIABLES
    md_calls,    \* history: content and headings of each render_markdown call
    rendered     \* the RenderedPage that render_page has returned, if any

\* Variant of new_used_ids that starts from the ids given by the earlier
\* render_markdown calls of the page.
used_ids_of_earlier_renders ==
    UNION { { md_calls[c].headings[i].id : i \in DOMAIN md_calls[c].headings } :
            c \in DOMAIN md_calls }

\* `let mut used_ids = HashSet::new()`: each collect_headings starts empty.
new_used_ids == {}

RECURSIVE collect_headings_from(_, _, _)
\* The loop of collect_headings over the rest of the blocks.
collect_headings_from(blks, used, entries) ==
    IF blks = <<>> THEN entries
    ELSE IF Head(blks).kind # "heading"
    THEN collect_headings_from(Tail(blks), used, entries)
    ELSE LET raw_id == raw_heading_id(None, Head(blks).text)
             id     == deduplicate_id(used, raw_id)
         IN  collect_headings_from(Tail(blks), used \cup {id},
                 Append(entries, [level |-> Head(blks).level, id |-> id,
                                  title |-> Head(blks).text]))

collect_headings(content) ==
    collect_headings_from(md_blocks(content), new_used_ids, <<>>)

\* "h1" to "h6"
heading_tag(level) == <<"h", Digits[level + 1]>>

RECURSIVE push_html(_, _, _)
\* Pass 2 and push_html: the HTML of the rest of the blocks; heading_index
\* counts the headings already written.
push_html(blks, entries, heading_index) ==
    IF blks = <<>> THEN <<>>
    ELSE LET b == Head(blks)
         IN  IF b.kind = "heading"
             THEN <<"<">> \o heading_tag(b.level) \o <<" ", "i", "d", "=", "\"">>
                  \o escape_html(entries[heading_index + 1].id) \o <<"\"", ">">>
                  \o b.text
                  \o <<"<", "/">> \o heading_tag(b.level) \o <<">", "\n">>
                  \o push_html(Tail(blks), entries, heading_index + 1)
             ELSE IF b.kind = "para"
             THEN <<"<", "p", ">">> \o b.text \o <<"<", "/", "p", ">", "\n">>
                  \o push_html(Tail(blks), entries, heading_index)
             ELSE b.text \o <<"\n">>
                  \o push_html(Tail(blks), entries, heading_index)

render_markdown(content) ==
    LET headings_ == collect_headings(content)
    IN  [html     |-> push_html(md_blocks(content), headings_, 0),
         headings |-> headings_]

\* The HTML that render_markdown returns.
markdown_html(text) == render_markdown(text).html

\* ------------------------------------------------------------------------
\* Documents
\* ------------------------------------------------------------------------

\* n repetitions of the character c.
Rep(c, n) == [i \in 1..n |-> c]

RECURSIVE join_lines(_, _, _)
\* The lines, each followed by the line terminator eol; the last line has
\* one only if `final`.
join_lines(ls, eol, final) ==
    IF ls = <<>> THEN <<>>
    ELSE IF Len(ls) = 1 THEN Head(ls) \o (IF final THEN eol ELSE <<>>)
    ELSE Head(ls) \o eol \o join_lines(Tail(ls), eol, final)

LineEndings == {<<"\n">>, <<"\r", "\n">>}

Documents(alphabet, n, eols) ==
    { join_lines(ls, eol, final) :
        ls \in UNION { [1..k -> alphabet] : k \in 0..n },
        eol \in eols, final \in BOOLEAN }

\* Lines of the scanned documents: directive openers and closers of 3 and 4
\* colons, a closer with trailing whitespace, text and a code fence.
ScanAlphabet ==
    { Rep(":", 3) \o <<"a">>,
      Rep(":", 4) \o <<" ", "b">>,
      Rep(":", 3),
      Rep(":", 4) \o <<" ">>,
      <<"x">>,
      Rep(Tilde, 3) }

\* ------------------------------------------------------------------------
\* Directive kinds (directive.rs, directive/callout.rs)
\* ------------------------------------------------------------------------

to_lowercase(s) == [i \in 1..Len(s) |-> to_ascii_lowercase(s[i])]

\* Variant of eq_ignore_ascii_case that compares with the case.
eq_with_case(a, b) == a = b

\* str::eq_ignore_ascii_case
eq_ignore_ascii_case(a, b) == to_lowercase(a) = to_lowercase(b)

RECURSIVE unescape_quoted(_)
\* A backslash before a quote or a backslash is dropped; any other
\* backslash stays.
unescape_quoted(s) ==
    IF s = <<>> THEN <<>>
    ELSE IF Head(s) = "\\"
    THEN IF Len(s) = 1 THEN <<"\\">>
         ELSE IF s[2] \in {"\"", "\\"}
         THEN <<s[2]>> \o unescape_quoted(SliceFrom(s, 2))
         ELSE <<"\\", s[2]>> \o unescape_quoted(SliceFrom(s, 2))
    ELSE <<Head(s)>> \o unescape_quoted(Tail(s))

RECURSIVE parse_attrs_from(_, _)
\* The loop of parse_attrs over the rest of the input.
parse_attrs_from(rest, pairs) ==
    IF rest = <<>> THEN pairs
    ELSE IF Head(rest) \in {".", "#"}
    THEN parse_attrs_from(trim_start(SliceFrom(rest, find_whitespace(rest))), pairs)
    ELSE LET next_eq == find_char(rest, "=")
             next_ws == find_whitespace(rest)
         IN  IF next_eq = None \/ next_eq.val >= next_ws
             THEN parse_attrs_from(trim_start(SliceFrom(rest, next_ws)), pairs)
             ELSE LET key      == Slice(rest, 0, next_eq.val)
                      after_eq == SliceFrom(rest, next_eq.val + 1)
                  IN  IF after_eq # <<>> /\ Head(after_eq) = "\""
                      THEN LET after_quote == Tail(after_eq)
                               scanned     == scan_quoted_value(after_quote)
                               raw         == Slice(after_quote, 0, scanned.end)
                               value       == IF scanned.has_escapes
                                              THEN unescape_quoted(raw) ELSE raw
                           IN  parse_attrs_from(
                                   trim_start(SliceFrom(after_quote,
                                       IF scanned.end + 1 <= Len(after_quote)
                                       THEN scanned.end + 1 ELSE Len(after_quote))),
                                   Append(pairs, [key |-> key, value |-> value]))
                      ELSE LET end == find_whitespace(after_eq)
                           IN  parse_attrs_from(
                                   trim_start(SliceFrom(after_eq, end)),
                                   Append(pairs, [key   |-> key,
                                                  value |-> Slice(after_eq, 0, end)]))

\* parse_attrs: the key=value pairs of the input, in order.
parse_attrs(input) == parse_attrs_from(trim(input), <<>>)

\* The identifiers of the callout kinds, in lowercase.
CalloutKinds ==
    { <<"a", "b", "s", "t", "r", "a", "c", "t">>, <<"b", "u", "g">>,
      <<"d", "a", "n", "g", "e", "r">>, <<"e", "x", "a", "m", "p", "l", "e">>,
      <<"f", "a", "i", "l", "u", "r", "e">>, <<"i", "n", "f", "o">>,
      <<"n", "o", "t", "e">>, <<"q", "u", "e", "s", "t", "i", "o", "n">>,
      <<"q", "u", "o", "t", "e">>, <<"s", "u", "c", "c", "e", "s", "s">>,
      <<"t", "i", "p">>, <<"w", "a", "r", "n", "i", "n", "g">> }

Note == <<"n", "o", "t", "e">>

\* value.parse::<CalloutKind>(): the kind whose identifier equals the value
\* ignoring ASCII case.
parse_callout_kind(value) ==
    IF to_lowercase(value) \in CalloutKinds THEN Some(to_lowercase(value)) ELSE None

RECURSIVE parse_args_from(_, _, _, _)
\* The loop of callout::parse_args over the rest of the pairs.
parse_args_from(pairs, kind, title, open) ==
    IF pairs = <<>> THEN [kind |-> kind, title |-> title, open |-> open]
    ELSE LET key   == Head(pairs).key
             value == Head(pairs).value
         IN  IF key = <<"t", "y", "p", "e">>
             THEN parse_args_from(Tail(pairs),
                      IF parse_callout_kind(value) # None
                      THEN parse_callout_kind(value).val ELSE kind,
                      title, open)
             ELSE IF key = <<"t", "i", "t", "l", "e">>
             THEN parse_args_from(Tail(pairs), kind,
                      IF value # <<>> THEN Some(value) ELSE None, open)
             ELSE IF key = <<"o", "p", "e", "n">>
             THEN parse_args_from(Tail(pairs), kind, title,
                      ~eq_ignore_ascii_case(value, <<"f", "a", "l", "s", "e">>))
             ELSE parse_args_from(Tail(pairs), kind, title, open)

\* callout::parse_args
parse_args(args) == parse_args_from(parse_attrs(args), Note, None, TRUE)

\* DirectiveKind::from_name: a callout when the name is "callout" ignoring
\* ASCII case, else Unknown with the name and the args as given.
from_name(name, args) ==
    IF eq_ignore_ascii_case(name, <<"c", "a", "l", "l", "o", "u", "t">>)
    THEN [tag |-> "Callout"] @@ parse_args(args)
    ELSE [tag |-> "Unknown", name |-> name, args |-> args]

\* ------------------------------------------------------------------------
\* Paragraphs and images (render/markdown.rs, render/image.rs)
\* ------------------------------------------------------------------------

\* The parser's events inside and around a paragraph.
ParagraphStart == [kind |-> "paragraph_start"]

ParagraphEnd == [kind |-> "paragraph_end"]

ImageStart(dest_url, title) ==
    [kind |-> "image_start", dest_url |-> dest_url, title |-> title]

ImageEnd == [kind |-> "image_end"]

Text(t) == [kind |-> "text", text |-> t]

SoftBreak == [kind |-> "soft_break"]

Html(html) == [kind |-> "html", html |-> html]

\* push_plain_text: the plain text one event adds to an alt text.
push_plain_text(event) ==
    IF event.kind = "text" THEN event.text
    ELSE IF event.kind = "soft_break" THEN <<" ">>
    ELSE <<>>

RECURSIVE extract_alt_text(_)
extract_alt_text(events) ==
    IF events = <<>> THEN <<>>
    ELSE push_plain_text(Head(events)) \o extract_alt_text(Tail(events))

\* push_img_tag: the title attribute is omitted when empty.
push_img_tag(src, alt, title) ==
    <<"<img src=\"">> \o escape_html(src) \o <<"\" alt=\"">> \o escape_html(alt)
    \o <<"\"">>
    \o (IF title # <<>> THEN <<" title=\"">> \o escape_html(title) \o <<"\"">>
        ELSE <<>>)
    \o <<" loading=\"lazy\" />">>

render_block_image(src, alt, title) ==
    <<"<figure>\n">> \o push_img_tag(src, alt, title) \o <<"\n">>
    \o (IF alt # <<>>
        THEN <<"<figcaption>">> \o escape_html(alt) \o <<"</figcaption>\n">>
        ELSE <<>>)
    \o <<"</figure>\n">>

render_inline_image(src, alt, title) == push_img_tag(src, alt, title)

is_image_event(ev) == ev.kind \in {"image_start", "image_end"}

\* try_render_block_image: Some(html) when the events are Start(Image),
\* inner events without any image start or end, End(Image).
try_render_block_image(events) ==
    IF events = <<>> THEN None
    ELSE IF Head(events).kind # "image_start" THEN None
    ELSE IF events[Len(events)].kind # "image_end" THEN None
    ELSE LET inner == SubSeq(events, 2, Len(events) - 1)
         IN  IF \E k \in 1..Len(inner) : is_image_event(inner[k]) THEN None
             ELSE Some(render_block_image(Head(events).dest_url,
                                          extract_alt_text(inner),
                                          Head(events).title))

\* The index of the first End(Image) at or after i, Len(events) + 1 if none
\* (indices from 1).
RECURSIVE image_end_from(_, _)
image_end_from(events, i) ==
    IF i > Len(events) THEN i
    ELSE IF events[i].kind = "image_end" THEN i
    ELSE image_end_from(events, i + 1)

\* flush_paragraph from index i: a Start(Image) consumes the events up to
\* and including the next End(Image) and emits one inline image; every
\* other event passes through.
RECURSIVE flush_paragraph_from(_, _)
flush_paragraph_from(events, i) ==
    IF i > Len(events) THEN <<>>
    ELSE IF events[i].kind = "image_start"
    THEN LET e   == image_end_from(events, i + 1)
             alt == extract_alt_text(SubSeq(events, i + 1, e - 1))
         IN  <<Html(render_inline_image(events[i].dest_url, alt, events[i].title))>>
             \o flush_paragraph_from(events, IF e <= Len(events) THEN e + 1 ELSE e)
    ELSE <<events[i]>> \o flush_paragraph_from(events, i + 1)

flush_paragraph(events) == flush_paragraph_from(events, 1)

\* The HTML the engine's writer produces for the output events: raw HTML is
\* copied, text is escaped, a soft break is a newline, and an End(Image)
\* without its start writes nothing.
RECURSIVE html_of_events(_)
html_of_events(evs) ==
    IF evs = <<>> THEN <<>>
    ELSE LET ev == Head(evs)
         IN  (IF ev.kind = "html" THEN ev.html
              ELSE IF ev.kind = "text" THEN escape_html(ev.text)
              ELSE IF ev.kind = "soft_break" THEN <<"\n">>
              ELSE <<>>)
             \o html_of_events(Tail(evs))

\* ------------------------------------------------------------------------
\* Table of contents (render/toc.rs)
\* The HTML is a sequence of chunks: each tag with its newline is one
\* chunk, each indentation unit is one chunk, ids and titles are characters.
\* ------------------------------------------------------------------------

NavOpen == "<nav class=\"toc\">\n"

NavClose == "</nav>\n"

UlOpen == "<ul>\n"

UlClose == "</ul>\n"

LiOpen == "<li>\n"

LiClose == "</li>\n"

EntryOpen == "<li><a href=\"#"

\* indent(html, level): `level` times two spaces.
indent(html, level) == html \o Rep("  ", level)

\* Variant of min_level that takes the level of the first entry.
min_level_of_first(entries) == IF entries = <<>> THEN 1 ELSE entries[1].level

\* entries.iter().map(|e| e.level as u8).min().unwrap_or(1)
min_level(entries) ==
    IF entries = <<>> THEN 1
    ELSE CHOOSE m \in { entries[i].level : i \in DOMAIN entries } :
             \A i \in DOMAIN entries : m <= entries[i].level

RECURSIVE close_deeper(_, _, _)
\* `while depth > target`: closes the deeper levels.
close_deeper(html, depth, target) ==
    IF depth > target
    THEN close_deeper(
             Append(indent(Append(indent(html, depth * 2), LiClose),
                           depth * 2 - 1), UlClose),
             depth - 1, target)
    ELSE [html |-> html, depth |-> depth]

\* `if target <= depth`: closes the deeper levels and the sibling at the
\* target depth.
close_to_target(html, depth, target) ==
    IF target <= depth
    THEN LET c == close_deeper(html, depth, target)
         IN  [html |-> Append(indent(c.html, c.depth * 2), LiClose),
              depth |-> c.depth]
    ELSE [html |-> html, depth |-> depth]

RECURSIVE open_levels_no_wrapper(_, _, _)
\* Variant of open_levels that opens the skipped levels without a wrapper
\* item.
open_levels_no_wrapper(html, depth, target) ==
    IF depth < target
    THEN open_levels_no_wrapper(Append(indent(html, depth * 2 + 1), UlOpen),
                                depth + 1, target)
    ELSE [html |-> html, depth |-> depth]

RECURSIVE open_levels(_, _, _)
\* `while depth < target`: opens the new levels, with a wrapper <li> at
\* each intermediate depth.
open_levels(html, depth, target) ==
    IF depth < target
    THEN LET opened == Append(indent(html, depth * 2 + 1), UlOpen)
             d      == depth + 1
         IN  open_levels(IF d < target
                         THEN Append(indent(opened, d * 2), LiOpen)
                         ELSE opened,
                         d, target)
    ELSE [html |-> html, depth |-> depth]

\* writeln!(html, "<li><a href=\"#{}\">{}</a>", escape_html(id), escape_html(title))
emit_entry(html, depth, entry) ==
    indent(html, depth * 2) \o <<EntryOpen>> \o escape_html(entry.id)
        \o <<"\">">> \o escape_html(entry.title) \o <<"</a>\n">>

\* The body of `for entry in entries`.
toc_entry(html, depth, entry, min) ==
    LET target == entry.level - min + 1
        closed == close_to_target(html, depth, target)
        opened == open_levels(closed.html, closed.depth, target)
    IN  [html |-> emit_entry(opened.html, opened.depth, entry),
         depth |-> opened.depth]

RECURSIVE close_remaining(_, _)
\* `while depth > 0`: closes all remaining levels.
close_remaining(html, depth) ==
    IF depth > 0
    THEN close_remaining(
             Append(indent(Append(indent(html, depth * 2), LiClose),
                           depth * 2 - 1), UlClose),
             depth - 1)
    ELSE [html |-> html, depth |-> depth]

RECURSIVE toc_entries_from(_, _, _, _)
\* The loop over the rest of the entries.
toc_entries_from(html, depth, rest, min) ==
    IF rest = <<>> THEN [html |-> html, depth |-> depth]
    ELSE LET s == toc_entry(html, depth, Head(rest), min)
         IN  toc_entries_from(s.html, s.depth, Tail(rest), min)

render_toc_html(entries) ==
    IF entries = <<>> THEN <<>>
    ELSE LET body == toc_entries_from(<<NavOpen>>, 0, entries, min_level(entries))
         IN  Append(close_remaining(body.html, body.depth).html, NavClose)

\* ------------------------------------------------------------------------
\* The scanner as a state machine: one step per line of the input
\* ------------------------------------------------------------------------

\* ------------------------------------------------------------------------
\* State
\* ------------------------------------------------------------------------

VARIABLES
    content,     \* the text given to parse_directives
    lines,       \* the segments content.split('\n') has not yielded yet
    offset,      \* byte offset of the start of the next line
    stack,       \* open directive frames, innermost last
    code_fence,  \* the open code fence, if any
    blocks,      \* emitted blocks
    pc,          \* "scan" inside the loop, "done" after the return
    pops,        \* history: the number of lines that popped a frame
    page,        \* the raw content given to render_directives
    calls,       \* the activations of render_directives, innermost last
    arg,         \* the text of a call of render_directives about to start
    ret,         \* the text a call of render_directives has just returned
    used_ids,    \* the ids used so far in one collect_headings
    headings,    \* the headings collected so far: raw id and final id
    hpc,         \* "collect" inside collect_headings, "done" after it, else "idle"
    toc_entries, \* the entries given to render_toc_html
    toc_rest,    \* the entries the loop has not visited yet
    toc_html,    \* the HTML written so far
    toc_depth,   \* depth: the number of open list levels
    tpc,         \* "start", "loop", "done" in render_toc_html, else "idle"
    paragraph,   \* history: the events between a paragraph's start and end
    md_events,   \* the parser events pass 2 has not visited yet
    in_para,     \* in_para of render_markdown
    para_buf,    \* para_buf of render_markdown
    output_events, \* output_events of render_markdown
    para_html,   \* the HTML written from output_events, None before that
    head_name,   \* history: the name word the opening line was written with
    head_tokens, \* history: the attribute tokens the opening line was written with
    head_text,   \* after_colons: the opening line after its colons
    directive_head, \* the DirectiveHead of the opening line, None before the parse
    directive_kind, \* the DirectiveKind of the pushed frame, None before the push
    parked,      \* the render_page calls that wait while another one runs
    heading_stream, \* the parser events of a text with headings, as both passes read them
    collector,   \* collect_headings: the events not visited yet and its locals
    heading_index \* heading_index of render_markdown

scanVars == <<content, lines, offset, stack, code_fence, blocks, pc, pops>>

renderVars == <<page, calls, arg, ret>>

headingVars == <<used_ids, headings, hpc>>

tocVars == <<toc_entries, toc_rest, toc_html, toc_depth, tpc>>

pageVars == <<md_calls, rendered>>

paraVars == <<paragraph, md_events, in_para, para_buf, output_events, para_html>>

headVars == <<head_name, head_tokens, head_text, directive_head, directive_kind>>

buildVars == <<parked>>

passVars == <<heading_stream, collector, heading_index>>

vars == <<scanVars, renderVars, headingVars, tocVars, pageVars, paraVars,
          headVars, buildVars, passVars>>

scan_state == [offset |-> offset, stack |-> stack, code_fence |-> code_fence,
               blocks |-> blocks]

InitScan(docs) ==
    /\ content \in docs
    /\ lines = split_newline(content)
    /\ offset = scan_start.offset
    /\ stack = scan_start.stack
    /\ code_fence = scan_start.code_fence
    /\ blocks = scan_start.blocks
    /\ pc = "scan"
    /\ pops = 0

\* No scan is running.
ScanIdle ==
    /\ content = <<>>
    /\ lines = <<>>
    /\ offset = 0
    /\ stack = <<>>
    /\ code_fence = None
    /\ blocks = <<>>
    /\ pc = "idle"
    /\ pops = 0

\* The body of `for raw_line in content.split('\n')`.
ScanLine ==
    /\ pc = "scan"
    /\ lines # <<>>
    /\ LET st == scan_line(content, scan_state, Head(lines))
       IN  /\ offset' = st.offset
           /\ stack' = st.stack
           /\ code_fence' = st.code_fence
           /\ blocks' = st.blocks
           /\ pops' = IF Len(st.stack) < Len(stack) THEN pops + 1 ELSE pops
    /\ lines' = Tail(lines)
    /\ UNCHANGED <<content, pc, renderVars, headingVars, tocVars, pageVars, paraVars, headVars, buildVars,
                   passVars>>

\* After the loop: the blocks are sorted and returned, the stack is dropped.
ScanReturn ==
    /\ pc = "scan"
    /\ lines = <<>>
    /\ blocks' = returned_blocks(content, blocks, stack)
    /\ pc' = "done"
    /\ UNCHANGED <<content, lines, offset, stack, code_fence, pops,
                   renderVars, headingVars, tocVars, pageVars, paraVars, headVars, buildVars,
                   passVars>>

NextScan == ScanLine \/ ScanReturn

\* ------------------------------------------------------------------------
\* render_directives as a state machine: one activation per call
\* ------------------------------------------------------------------------

\* Cap of the call stack of render_directives.
MaxCallDepth == 4

InitRender(docs) ==
    /\ page \in docs
    /\ calls = <<>>
    /\ arg = Some(page)
    /\ ret = None

\* No render is running.
RenderIdle ==
    /\ page = <<>>
    /\ calls = <<>>
    /\ arg = None
    /\ ret = None

\* The innermost activation.
Caller == calls[Len(calls)]

\* render_directives starts on arg: it scans the text and returns it at once
\* when it holds no block; else it selects the top-level blocks and copies
\* the text into result.
RenderEnter ==
    /\ arg # None
    /\ Len(calls) < MaxCallDepth
    /\ LET all_blocks == parse_directives(arg.val)
       IN  IF all_blocks = <<>>
           THEN /\ ret' = Some(arg.val)
                /\ calls' = calls
           ELSE /\ ret' = None
                /\ calls' = Append(calls,
                       [content    |-> arg.val,
                        all_blocks |-> all_blocks,
                        top_level  |-> top_level_blocks(all_blocks),
                        pending    |-> replacement_order(top_level_blocks(all_blocks)),
                        result     |-> arg.val])
    /\ arg' = None
    /\ UNCHANGED <<page, scanVars, headingVars, tocVars, pageVars, paraVars, headVars, buildVars,
                   passVars>>

\* The loop takes its next block and calls render_directives on its body.
RenderDescend ==
    /\ arg = None /\ ret = None
    /\ calls # <<>>
    /\ Caller.pending # <<>>
    /\ arg' = Some(Head(Caller.pending).body)
    /\ UNCHANGED <<page, calls, ret, scanVars, headingVars, tocVars, pageVars, paraVars, headVars, buildVars,
                   passVars>>

\* The call on the body has returned: the block is rendered around the HTML
\* of the processed body and spliced into result in place of its range.
RenderSplice ==
    /\ ret # None
    /\ calls # <<>>
    /\ LET block     == Head(Caller.pending)
           md_output == render_markdown(ret.val)
           html      == render_directive_block(block.head, md_output.html)
       IN  /\ calls' = [calls EXCEPT ![Len(calls)] =
                          [@ EXCEPT !.pending = Tail(@),
                                    !.result  = replace_range(@, block.start,
                                                    block.end, padded_html(html))]]
           /\ md_calls' = Append(md_calls, [content  |-> ret.val,
                                            headings |-> md_output.headings])
    /\ ret' = None
    /\ UNCHANGED <<page, arg, rendered, scanVars, headingVars, tocVars, paraVars, headVars, buildVars,
                   passVars>>

\* The loop has ended: the activation returns its result.
RenderExit ==
    /\ arg = None /\ ret = None
    /\ calls # <<>>
    /\ Caller.pending = <<>>
    /\ ret' = Some(Caller.result)
    /\ calls' = SubSeq(calls, 1, Len(calls) - 1)
    /\ UNCHANGED <<page, arg, scanVars, headingVars, tocVars, pageVars, paraVars, headVars, buildVars,
                   passVars>>

NextRender == RenderEnter \/ RenderDescend \/ RenderSplice \/ RenderExit

\* render_page after render_directives has returned: the processed text is
\* rendered as markdown and the table of contents is built from its
\* headings.
RenderPage ==
    /\ ret # None
    /\ calls = <<>>
    /\ rendered = None
    /\ LET md_output == render_markdown(ret.val)
       IN  /\ rendered' = Some([content_html |-> md_output.html,
                                toc_html     |-> render_toc_html(md_output.headings)])
           /\ md_calls' = Append(md_calls, [content  |-> ret.val,
                                            headings |-> md_output.headings])
    /\ ret' = None
    /\ UNCHANGED <<page, calls, arg, scanVars, headingVars, tocVars, paraVars, headVars, buildVars,
                   passVars>>

NextPage == NextRender \/ RenderPage

\* ------------------------------------------------------------------------
\* collect_headings as a state machine: one step per heading
\* ------------------------------------------------------------------------

\* Neither pass of render_markdown is reading a stream of heading events.
PassIdle ==
    /\ heading_stream = <<>>
    /\ collector = None
    /\ heading_index = 0

InitHeadings ==
    /\ used_ids = {}
    /\ headings = <<>>
    /\ hpc = "collect"
    /\ PassIdle

\* No heading collection is running.
HeadingsIdle ==
    /\ used_ids = {}
    /\ headings = <<>>
    /\ hpc = "idle"
    /\ PassIdle

\* Largest number of headings of one render.
MaxHeadings == 5

Str_foo == <<"f", "o", "o">>

\* Heading events: the level, the explicit id if any, and the plain text.
\* Their raw ids are foo, foo-1, foo-2, foo-1-1, section and Foo.
HeadingInputs ==
    { [level |-> 1, explicit_id |-> None, text |-> <<"F", "o", "o">>],
      [level |-> 2, explicit_id |-> None, text |-> Str_foo \o <<" ", "1">>],
      [level |-> 2, explicit_id |-> Some(Str_foo \o <<"-", "2">>), text |-> <<"x">>],
      [level |-> 3, explicit_id |-> None, text |-> Str_foo \o <<" ", "1", ".", "1">>],
      [level |-> 2, explicit_id |-> None, text |-> <<"!", "?">>],
      [level |-> 1, explicit_id |-> Some(<<"F", "o", "o">>), text |-> Str_foo] }

\* Event::End(TagEnd::Heading): the heading gets its id and is appended.
HeadingEnd ==
    /\ hpc = "collect"
    /\ Len(headings) < MaxHeadings
    /\ \E h \in HeadingInputs :
          LET raw_id == raw_heading_id(h.explicit_id, h.text)
              id     == deduplicate_id(used_ids, raw_id)
          IN  /\ used_ids' = used_ids \cup {id}
              /\ headings' = Append(headings,
                     [level |-> h.level, id |-> id, title |-> h.text,
                      raw_id |-> raw_id])
    /\ UNCHANGED <<hpc, scanVars, renderVars, tocVars, pageVars, paraVars, headVars, buildVars,
                   passVars>>

\* The event stream has ended: collect_headings returns the headings.
HeadingsReturn ==
    /\ hpc = "collect"
    /\ hpc' = "done"
    /\ UNCHANGED <<used_ids, headings, scanVars, renderVars, tocVars, pageVars, paraVars, headVars, buildVars,
                   passVars>>

NextHeadings == HeadingEnd \/ HeadingsReturn

\* ------------------------------------------------------------------------
\* render_toc_html as a state machine: one step per entry
\* ------------------------------------------------------------------------

InitToc(inputs) ==
    /\ toc_entries \in inputs
    /\ toc_rest = toc_entries
    /\ toc_html = <<>>
    /\ toc_depth = 0
    /\ tpc = "start"

\* render_page has made no render_markdown call and has not returned.
PageIdle ==
    /\ md_calls = <<>>
    /\ rendered = None
    /\ parked = <<>>

\* render_markdown is not transforming any paragraph.
ParaIdle ==
    /\ paragraph = <<>>
    /\ md_events = <<>>
    /\ in_para = FALSE
    /\ para_buf = <<>>
    /\ output_events = <<>>
    /\ para_html = None

\* No opening line is being parsed.
HeadIdle ==
    /\ head_name = <<>>
    /\ head_tokens = <<>>
    /\ head_text = <<>>
    /\ directive_head = None
    /\ directive_kind = None

\* No table of contents is being rendered.
TocIdle ==
    /\ toc_entries = <<>>
    /\ toc_rest = <<>>
    /\ toc_html = <<>>
    /\ toc_depth = 0
    /\ tpc = "idle"

\* The empty list returns the empty string; else the <nav> is opened.
TocStart ==
    /\ tpc = "start"
    /\ IF toc_entries = <<>>
       THEN toc_html' = <<>> /\ tpc' = "done"
       ELSE toc_html' = <<NavOpen>> /\ tpc' = "loop"
    /\ UNCHANGED <<toc_entries, toc_rest, toc_depth,
                   scanVars, renderVars, headingVars, pageVars, paraVars, headVars, buildVars,
                   passVars>>

\* The body of `for entry in entries`.
TocEntry ==
    /\ tpc = "loop"
    /\ toc_rest # <<>>
    /\ LET s == toc_entry(toc_html, toc_depth, Head(toc_rest),
                          min_level(toc_entries))
       IN  toc_html' = s.html /\ toc_depth' = s.depth
    /\ toc_rest' = Tail(toc_rest)
    /\ UNCHANGED <<toc_entries, tpc, scanVars, renderVars, headingVars, pageVars, paraVars, headVars, buildVars,
                   passVars>>

\* After the loop: the remaining levels and the <nav> are closed.
TocFinish ==
    /\ tpc = "loop"
    /\ toc_rest = <<>>
    /\ LET c == close_remaining(toc_html, toc_depth)
       IN  toc_html' = Append(c.html, NavClose) /\ toc_depth' = c.depth
    /\ tpc' = "done"
    /\ UNCHANGED <<toc_entries, toc_rest, scanVars, renderVars, headingVars, pageVars, paraVars, headVars, buildVars,
                   passVars>>

NextToc == TocStart \/ TocEntry \/ TocFinish

\* ------------------------------------------------------------------------
\* Specifications
\* ------------------------------------------------------------------------

Init ==
    /\ InitScan(Documents(ScanAlphabet, MaxLines, LineEndings))
    /\ RenderIdle
    /\ HeadingsIdle
    /\ TocIdle
    /\ PageIdle /\ ParaIdle /\ HeadIdle

Next == NextScan

\* The scanner on documents of directive fences, text and a code fence.
Spec == Init /\ [][Next]_vars


\* Largest number of lines of a document of nested directives.
MaxNestLines == 6

\* Openers and closers only: with six lines, a wrapper around two siblings.
NestAlphabet ==
    { Rep(":", 3) \o <<"a">>,
      Rep(":", 4) \o <<"b">>,
      Rep(":", 3),
      Rep(":", 4) }

InitNest ==
    /\ InitScan(Documents(NestAlphabet, MaxNestLines, {<<"\n">>}))
    /\ RenderIdle
    /\ HeadingsIdle
    /\ TocIdle
    /\ PageIdle /\ ParaIdle /\ HeadIdle

\* The scanner on documents of nested directive fences.
SpecNest == InitNest /\ [][Next]_vars

\* Largest number of lines of a document of code fences.
MaxFenceLines == 4

\* Code fences of both characters and two lengths, an over-indented fence, a
\* fence with an info string, a backtick fence with a backtick in its info
\* string (not a fence), and a directive opener and closer.
FenceAlphabet ==
    { Rep(Backtick, 3),
      Rep(Backtick, 4),
      Rep(Tilde, 3),
      Rep(" ", 4) \o Rep(Backtick, 3),
      <<" ">> \o Rep(Backtick, 3) \o <<"x">>,
      Rep(Backtick, 3) \o <<"x", Backtick>>,
      Rep(":", 3) \o <<"a">>,
      Rep(":", 3) }

InitFence ==
    /\ InitScan(Documents(FenceAlphabet, MaxFenceLines, {<<"\n">>}))
    /\ RenderIdle
    /\ HeadingsIdle
    /\ TocIdle
    /\ PageIdle /\ ParaIdle /\ HeadIdle

\* The scanner on documents of code fences.
SpecFence == InitFence /\ [][Next]_vars

\* Largest number of lines of a rendered page.
MaxRenderLines == 6

\* Directive openers with a name and without one, a 4-colon opener that a
\* 3-colon closer leaves open, a closer and text.
RenderAlphabet ==
    { Rep(":", 3) \o <<"a">>,
      Rep(":", 4) \o <<"b">>,
      Rep(":", 3) \o <<"{", "}">>,
      Rep(":", 3),
      <<"x">> }

InitPage ==
    /\ InitRender(Documents(RenderAlphabet, MaxRenderLines, {<<"\n">>}))
    /\ ScanIdle
    /\ HeadingsIdle
    /\ TocIdle
    /\ PageIdle /\ ParaIdle /\ HeadIdle

\* render_directives on pages of directives and text.
SpecRender == InitPage /\ [][NextRender]_vars

\* Largest number of lines of a page with headings.
MaxPageLines == 5

\* Directives with and without a name, a heading, text and a blank line.
PageAlphabet ==
    { Rep(":", 3) \o <<"a">>,
      Rep(":", 3),
      <<"#", " ", "F", "o", "o">>,
      <<"x">>,
      <<>> }

InitPages ==
    /\ InitRender(Documents(PageAlphabet, MaxPageLines, {<<"\n">>}))
    /\ ScanIdle
    /\ HeadingsIdle
    /\ TocIdle
    /\ PageIdle /\ ParaIdle /\ HeadIdle

\* render_page on pages of directives, headings and text.
SpecPage == InitPages /\ [][NextPage]_vars

\* Largest number of lines of a page that is scanned and rendered to the end.
MaxTermLines == 4

InitTerm ==
    /\ InitScan(Documents(NestAlphabet, MaxTermLines, {<<"\n">>}))
    /\ InitRender({content})
    /\ HeadingsIdle
    /\ TocIdle
    /\ PageIdle /\ ParaIdle /\ HeadIdle

NextTerm == NextScan \/ NextPage

\* The steps of the loops and calls, told by the control state they leave:
\* such a step is possible exactly when the guard of its action holds, and
\* only that action takes it.
ScanLineTaken == pc = "scan" /\ lines # <<>> /\ lines' = Tail(lines)

ScanReturnTaken == pc = "scan" /\ lines = <<>> /\ pc' = "done"

RenderEnterTaken == arg # None /\ Len(calls) < MaxCallDepth /\ arg' = None

RenderSpliceTaken == ret # None /\ calls # <<>> /\ ret' = None

RenderPageTaken == ret # None /\ calls = <<>> /\ rendered = None /\ ret' = None

\* The code is sequential: a loop iteration, call or return that can happen
\* does happen.
FairTerm ==
    /\ WF_lines(ScanLineTaken)
    /\ WF_pc(ScanReturnTaken)
    /\ WF_arg(RenderEnterTaken)
    /\ WF_vars(RenderDescend)
    /\ WF_ret(RenderSpliceTaken)
    /\ WF_vars(RenderExit)
    /\ WF_ret(RenderPageTaken)

\* The scan of a page and its rendering, each run to its end.
SpecTerm == InitTerm /\ [][NextTerm]_vars /\ FairTerm

InitIds == ScanIdle /\ RenderIdle /\ InitHeadings /\ TocIdle /\ PageIdle /\ ParaIdle /\ HeadIdle

\* collect_headings on sequences of heading events.
SpecHeadings == InitIds /\ [][NextHeadings]_vars

\* Largest number of entries of a table of contents.
MaxTocEntries == 4

\* The heading levels H1 to H6.
HeadingLevels == 1..6

\* Entries of every level; the id names the position, the title the level
\* and holds a character that escape_html rewrites.
TocInputs ==
    { [i \in 1..k |-> [level |-> ls[i],
                       id    |-> <<"h", Digits[i + 1]>>,
                       title |-> <<"&", Digits[ls[i] + 1]>>]] :
        k \in 0..MaxTocEntries, ls \in [1..MaxTocEntries -> HeadingLevels] }

InitTocs ==
    ScanIdle /\ RenderIdle /\ HeadingsIdle /\ PageIdle /\ ParaIdle /\ HeadIdle /\ InitToc(TocInputs)

\* render_toc_html on entries of all levels.
SpecToc == InitTocs /\ [][NextToc]_vars

\* ------------------------------------------------------------------------
\* Pass 2 of render_markdown on one paragraph: one step per parser event
\* ------------------------------------------------------------------------

Rule == [kind |-> "rule"]

InitParagraph(paragraphs) ==
    /\ paragraph \in paragraphs
    /\ md_events \in { <<ParagraphStart>> \o paragraph \o <<ParagraphEnd>>,
                       <<Rule, ParagraphStart>> \o paragraph \o <<ParagraphEnd>> }
    /\ in_para = FALSE
    /\ para_buf = <<>>
    /\ output_events = <<>>
    /\ para_html = None

\* Event::Start(Tag::Paragraph)
ParaStart ==
    /\ md_events # <<>>
    /\ Head(md_events).kind = "paragraph_start"
    /\ in_para' = TRUE
    /\ para_buf' = <<>>
    /\ md_events' = Tail(md_events)
    /\ UNCHANGED <<paragraph, output_events, para_html,
                   scanVars, renderVars, headingVars, tocVars, pageVars, headVars, buildVars,
                   passVars>>

\* Event::End(TagEnd::Paragraph): a block image, or <p>, the flushed
\* events and </p>.
ParaEnd ==
    /\ md_events # <<>>
    /\ Head(md_events).kind = "paragraph_end"
    /\ in_para' = FALSE
    /\ LET block_image == try_render_block_image(para_buf)
       IN  output_events' =
               IF block_image # None
               THEN Append(output_events, Html(block_image.val))
               ELSE output_events \o <<Html(<<"<p>">>)>>
                    \o flush_paragraph(para_buf) \o <<Html(<<"</p>\n">>)>>
    /\ para_buf' = <<>>
    /\ md_events' = Tail(md_events)
    /\ UNCHANGED <<paragraph, para_html,
                   scanVars, renderVars, headingVars, tocVars, pageVars, headVars, buildVars,
                   passVars>>

\* Any other event inside a paragraph is buffered.
ParaPush ==
    /\ md_events # <<>>
    /\ Head(md_events).kind \notin {"paragraph_start", "paragraph_end"}
    /\ in_para
    /\ para_buf' = Append(para_buf, Head(md_events))
    /\ md_events' = Tail(md_events)
    /\ UNCHANGED <<paragraph, in_para, output_events, para_html,
                   scanVars, renderVars, headingVars, tocVars, pageVars, headVars, buildVars,
                   passVars>>

\* Any other event outside a paragraph passes to the output.
ParaOther ==
    /\ md_events # <<>>
    /\ Head(md_events).kind \notin {"paragraph_start", "paragraph_end"}
    /\ ~in_para
    /\ output_events' = Append(output_events, Head(md_events))
    /\ md_events' = Tail(md_events)
    /\ UNCHANGED <<paragraph, in_para, para_buf, para_html,
                   scanVars, renderVars, headingVars, tocVars, pageVars, headVars, buildVars,
                   passVars>>

\* push_html after the loop; a thematic break is written as <hr />.
ParaHtml ==
    /\ md_events = <<>>
    /\ para_html = None
    /\ para_html' = Some(html_of_events(
           [k \in 1..Len(output_events) |->
               IF output_events[k].kind = "rule"
               THEN Html(<<"<hr />\n">>) ELSE output_events[k]]))
    /\ UNCHANGED <<paragraph, md_events, in_para, para_buf, output_events,
                   scanVars, renderVars, headingVars, tocVars, pageVars, headVars, buildVars,
                   passVars>>

NextParagraph == ParaStart \/ ParaEnd \/ ParaPush \/ ParaOther \/ ParaHtml

\* ------------------------------------------------------------------------
\* Paragraphs of text and images, images nested in descriptions included
\* ------------------------------------------------------------------------

MaxParaEvents == 6

ParaAlphabet ==
    { ImageStart(<<"a">>, <<>>), ImageStart(<<"b">>, <<"T">>), ImageEnd,
      Text(<<"x">>) }

\* The number of images open after the first k events.
ImageDepth(evs, k) ==
    Cardinality({ j \in 1..k : evs[j].kind = "image_start" })
    - Cardinality({ j \in 1..k : evs[j].kind = "image_end" })

\* Every image end closes an open image and every image is closed.
BalancedImages(evs) ==
    /\ \A k \in 1..Len(evs) : ImageDepth(evs, k) >= 0
    /\ ImageDepth(evs, Len(evs)) = 0

Paragraphs ==
    { evs \in UNION { [1..k -> ParaAlphabet] : k \in 1..MaxParaEvents } :
        BalancedImages(evs) }

InitParagraphs ==
    /\ ScanIdle /\ RenderIdle /\ HeadingsIdle /\ TocIdle /\ PageIdle /\ HeadIdle
    /\ InitParagraph(Paragraphs)

\* Pass 2 of render_markdown on every paragraph of the alphabet.
SpecParagraph == InitParagraphs /\ [][NextParagraph]_vars

\* ------------------------------------------------------------------------
\* An opening line's head: parse_directive_head, then DirectiveKind::from_name
\* ------------------------------------------------------------------------

\* A token as written inside the braces; a key=value token also carries
\* its key and the value it stands for.
IdToken(name) == [sort |-> "id", text |-> <<"#">> \o name]

ClassToken(name) == [sort |-> "class", text |-> <<".">> \o name]

BareToken(word) == [sort |-> "bare", text |-> word]

PairToken(key, value) ==
    [sort |-> "pair", text |-> key \o <<"=">> \o value,
     key |-> key, value |-> value]

QuotedToken(key, written, value) ==
    [sort |-> "pair", text |-> key \o <<"=", "\"">> \o written \o <<"\"">>,
     key |-> key, value |-> value, closed |-> TRUE]

RECURSIVE JoinTokens(_, _)
JoinTokens(tokens, sep) ==
    IF tokens = <<>> THEN <<>>
    ELSE IF Len(tokens) = 1 THEN Head(tokens).text
    ELSE Head(tokens).text \o sep \o JoinTokens(Tail(tokens), sep)

\* The text after the colons of an opening line: the name, or the name and
\* the tokens in braces.
HeadText(name, tokens, braces, sep) ==
    <<" ">> \o name
    \o (IF braces
        THEN (IF name # <<>> THEN <<" ">> ELSE <<>>)
             \o <<"{">> \o JoinTokens(tokens, sep) \o <<"}">>
        ELSE <<>>)

\* The opening lines written from the names, at most max tokens and the
\* separators; a line without braces has a name and no tokens.
InitHead(names, tokens, max, seps) ==
    /\ head_name \in names
    /\ head_tokens \in UNION { [1..k -> tokens] : k \in 0..max }
    /\ \E braces \in BOOLEAN, sep \in seps :
           /\ ~braces => head_tokens = <<>> /\ head_name # <<>>
           /\ head_text = HeadText(head_name, head_tokens, braces, sep)
    /\ directive_head = None
    /\ directive_kind = None

\* parse_directive_head(after_colons) of a line that opens a directive.
ParseHead ==
    /\ head_text # <<>>
    /\ directive_head = None
    /\ directive_head' = Some(parse_directive_head(head_text))
    /\ UNCHANGED <<head_name, head_tokens, head_text, directive_kind,
                   scanVars, renderVars, headingVars, tocVars, pageVars, paraVars,
                   buildVars, passVars>>

\* The kind of the pushed frame: DirectiveKind::from_name(head.name, &head.args).
FromName ==
    /\ directive_head # None
    /\ directive_kind = None
    /\ directive_kind' = Some(from_name(directive_head.val.name,
                                        directive_head.val.args))
    /\ UNCHANGED <<head_name, head_tokens, head_text, directive_head,
                   scanVars, renderVars, headingVars, tocVars, pageVars, paraVars,
                   buildVars, passVars>>

NextHead == ParseHead \/ FromName

InitOthersIdle ==
    ScanIdle /\ RenderIdle /\ HeadingsIdle /\ TocIdle /\ PageIdle /\ ParaIdle

MaxAttrTokens == 3

\* Names that are, and that are not, "callout" in some case.
KindNames ==
    { <<>>, <<"c", "a", "l", "l", "o", "u", "t">>,
      <<"C", "a", "l", "l", "o", "u", "t">>,
      <<"C", "A", "L", "L", "O", "U", "T">>,
      <<"n", "o", "t", "e">>, <<"N", "o", "t", "e">>,
      <<"c", "a", "l", "l">>, <<"c", "a", "l", "l", "o", "u", "t", "s">> }

KindTokens ==
    { IdToken(<<"a">>), ClassToken(<<"c">>), BareToken(<<"w">>),
      PairToken(<<"k">>, <<"v">>),
      QuotedToken(<<"t">>, <<"x", " ", "y">>, <<"x", " ", "y">>) }

InitKinds ==
    /\ InitOthersIdle
    /\ InitHead(KindNames, KindTokens, MaxAttrTokens, {<<" ">>, <<" ", " ">>})

\* Opening lines of callouts and of other names.
SpecKind == InitKinds /\ [][NextHead]_vars

\* The words the callout attributes are written with.
TypeKey == <<"t", "y", "p", "e">>

TitleKey == <<"t", "i", "t", "l", "e">>

OpenKey == <<"o", "p", "e", "n">>

\* type, title and open tokens with recognized, unrecognized, empty, quoted
\* and escaped values, among tokens that parse_args ignores.
CalloutTokens ==
    { PairToken(TypeKey, <<"t", "i", "p">>),
      PairToken(TypeKey, <<"T", "I", "P">>),
      PairToken(TypeKey, <<"W", "a", "r", "n", "i", "n", "g">>),
      PairToken(TypeKey, <<"b", "a", "d">>),
      PairToken(TypeKey, <<>>),
      PairToken(TitleKey, <<"T">>),
      PairToken(TitleKey, <<>>),
      QuotedToken(TitleKey, <<>>, <<>>),
      QuotedToken(TitleKey, <<"a", " ", "b">>, <<"a", " ", "b">>),
      QuotedToken(TitleKey, <<"a", "\\", "\"", "b">>, <<"a", "\"", "b">>),
      PairToken(OpenKey, <<"f", "a", "l", "s", "e">>),
      PairToken(OpenKey, <<"F", "A", "L", "S", "E">>),
      PairToken(OpenKey, <<"t", "r", "u", "e">>),
      PairToken(OpenKey, <<"n", "o">>),
      PairToken(<<"k">>, <<"v">>),
      ClassToken(<<"c">>) }

InitCallouts ==
    /\ InitOthersIdle
    /\ InitHead({<<"c", "a", "l", "l", "o", "u", "t">>}, CalloutTokens,
                MaxAttrTokens, {<<" ">>})

\* Opening lines of callouts with type, title and open attributes.
SpecCallout == InitCallouts /\ [][NextHead]_vars

MaxIdClassTokens == 4

\* Ids, classes, an empty # and an empty ., a key=value token and a quoted
\* value that holds a # word and a . word.
AttrTokens ==
    { IdToken(<<"a">>), IdToken(<<"b">>), IdToken(<<>>),
      ClassToken(<<"c">>), ClassToken(<<"d">>), ClassToken(<<>>),
      PairToken(<<"k">>, <<"v">>),
      QuotedToken(TitleKey, <<"x", " ", "#", "b", " ", ".", "d">>,
                            <<"x", " ", "#", "b", " ", ".", "d">>) }

InitAttrs ==
    /\ InitOthersIdle
    /\ InitHead({<<"c", "a", "l", "l", "o", "u", "t">>, <<"x">>}, AttrTokens,
                MaxIdClassTokens, {<<" ">>})

\* Opening lines with #id, .class and key=value tokens in every order.
SpecAttrs == InitAttrs /\ [][NextHead]_vars

\* ------------------------------------------------------------------------
\* Quoted attribute values written from units: plain characters and
\* backslash sequences
\* ------------------------------------------------------------------------

MaxQuotedUnits == 4

\* What is written for a unit, and the text the unit stands for.
QuotedUnits ==
    { [written |-> <<"a">>,        value |-> <<"a">>],
      [written |-> <<" ">>,        value |-> <<" ">>],
      [written |-> <<"\\", "\"">>, value |-> <<"\"">>],
      [written |-> <<"\\", "\\">>, value |-> <<"\\">>],
      [written |-> <<"\\", "n">>,  value |-> <<"\\", "n">>] }

RECURSIVE UnitsWritten(_)
UnitsWritten(units) ==
    IF units = <<>> THEN <<>>
    ELSE Head(units).written \o UnitsWritten(Tail(units))

RECURSIVE UnitsValue(_)
UnitsValue(units) ==
    IF units = <<>> THEN <<>>
    ELSE Head(units).value \o UnitsValue(Tail(units))

\* key="written without a closing quote: the value runs to the end of the
\* input, here over the text that follows.
UnclosedToken(key, written, value) ==
    [sort |-> "pair", text |-> key \o <<"=", "\"">> \o written,
     key |-> key, value |-> value, closed |-> FALSE]

EndsInSpace(units) == units # <<>> /\ units[Len(units)].written = <<" ">>

\* A title written from the units, closed or not, alone or before a class
\* token. The interior of the braces is trimmed before it is read, so a
\* value without closing quote at the end of the interior does not end in
\* a space.
QuotedHeads ==
    LET values == UNION { [1..k -> QuotedUnits] : k \in 0..MaxQuotedUnits }
    IN  { <<QuotedToken(TitleKey, UnitsWritten(us), UnitsValue(us))>> :
              us \in values }
        \cup { <<QuotedToken(TitleKey, UnitsWritten(us), UnitsValue(us)),
                 ClassToken(<<"c">>)>> : us \in values }
        \cup { <<UnclosedToken(TitleKey, UnitsWritten(us), UnitsValue(us))>> :
                   us \in { v \in values : ~EndsInSpace(v) } }
        \cup { <<UnclosedToken(TitleKey, UnitsWritten(us),
                               UnitsValue(us) \o <<" ", ".", "c">>),
                 ClassToken(<<"c">>)>> : us \in values }
        \cup { <<UnclosedToken(TitleKey, UnitsWritten(us) \o <<"\\">>,
                               UnitsValue(us) \o <<"\\">>)>> : us \in values }

InitQuoted ==
    /\ InitOthersIdle
    /\ head_name = <<"c", "a", "l", "l", "o", "u", "t">>
    /\ head_tokens \in QuotedHeads
    /\ head_text = HeadText(head_name, head_tokens, TRUE, <<" ">>)
    /\ directive_head = None
    /\ directive_kind = None

\* Callout opening lines with a quoted title.
SpecQuoted == InitQuoted /\ [][NextHead]_vars

\* ------------------------------------------------------------------------
\* Shapes of lines, stated on the characters of the line
\* ------------------------------------------------------------------------

\* The length of the run of colons at column 0.
ColonRun(line) ==
    CHOOSE n \in 0..Len(line) :
        /\ \A i \in 1..n : line[i] = ":"
        /\ n < Len(line) => line[n + 1] # ":"

\* At least three colons at column 0 and only whitespace after them.
ClosingShape(line) ==
    /\ ColonRun(line) >= 3
    /\ \A i \in (ColonRun(line) + 1)..Len(line) : is_whitespace(line[i])

\* At least three colons at column 0 and some text after them.
OpeningShape(line) ==
    /\ ColonRun(line) >= 3
    /\ \E i \in (ColonRun(line) + 1)..Len(line) : ~is_whitespace(line[i])

\* At most three spaces, then at least k characters c, then only whitespace.
FenceRunLine(line, c, k) ==
    \E ind \in 0..3 : \E n \in k..Len(line) :
        /\ ind + n <= Len(line)
        /\ \A i \in 1..ind : line[i] = " "
        /\ \A i \in (ind + 1)..(ind + n) : line[i] = c
        /\ \A i \in (ind + n + 1)..Len(line) : is_whitespace(line[i])

\* At most three spaces, then a run of exactly k >= 3 characters c (a backtick
\* or a tilde), and no backtick after a run of backticks.
OpensCodeFence(line, c, k) ==
    /\ c \in {Backtick, Tilde}
    /\ k >= 3
    /\ \E ind \in 0..3 :
        /\ ind + k <= Len(line)
        /\ \A i \in 1..ind : line[i] = " "
        /\ \A i \in (ind + 1)..(ind + k) : line[i] = c
        /\ ind + k < Len(line) => line[ind + k + 1] # c
        /\ c = Backtick => \A i \in (ind + k + 1)..Len(line) : line[i] # Backtick

\* p is the offset of the first byte of a line of the text.
IsLineStart(text, p) == p = 0 \/ (p <= Len(text) /\ text[p] = "\n")

\* The offset just after the line that starts at p, its terminator included.
AfterLine(text, p) ==
    IF \E q \in (p + 1)..Len(text) : text[q] = "\n"
    THEN CHOOSE q \in (p + 1)..Len(text) :
             text[q] = "\n" /\ \A r \in (p + 1)..(q - 1) : text[r] # "\n"
    ELSE Len(text)

\* The line that starts at p, without its newline.
LineText(text, p) ==
    LET e == AfterLine(text, p)
    IN  IF e > p /\ text[e] = "\n" THEN Slice(text, p, e - 1) ELSE Slice(text, p, e)

\* The start of the last line that begins before e.
LastLineStart(text, e) ==
    CHOOSE p \in 0..(e - 1) :
        IsLineStart(text, p) /\ \A q \in (p + 1)..(e - 1) : ~IsLineStart(text, q)

\* The text without one trailing line terminator (\n or \r\n).
StripOneTerminator(t) ==
    IF Len(t) >= 2 /\ t[Len(t) - 1] = "\r" /\ t[Len(t)] = "\n"
    THEN SubSeq(t, 1, Len(t) - 2)
    ELSE IF Len(t) >= 1 /\ t[Len(t)] = "\n" THEN SubSeq(t, 1, Len(t) - 1)
    ELSE t

\* The number of lines of the text that have the shape of an opening fence.
NumOpeningLines(text) ==
    LET ls == split_newline(text)
    IN  Cardinality({ i \in 1..Len(ls) : OpeningShape(ls[i]) })

\* The scanner is about to read a line.
AtLine == pc = "scan" /\ lines # <<>>

\* ------------------------------------------------------------------------
\* Properties of the scanner
\* ------------------------------------------------------------------------

C1_Step ==
    (AtLine /\ code_fence = None /\ ClosingShape(Head(lines))) =>
        LET n == ColonRun(Head(lines))
            d == Len(stack)
        IN  IF d > 0 /\ stack[d].colon_count <= n
            THEN /\ stack' = SubSeq(stack, 1, d - 1)
                 /\ Len(blocks') = Len(blocks) + 1
                 /\ SubSeq(blocks', 1, Len(blocks)) = blocks
                 /\ blocks'[Len(blocks')].start = stack[d].range_start
                 /\ blocks'[Len(blocks')].head = stack[d].head
            ELSE stack' = stack /\ blocks' = blocks

\* C1: outside a code fence, a line of n >= 3 colons and whitespace pops the
\* topmost frame, and emits one block for it, if and only if the stack is not
\* empty and that frame was opened with at most n colons; otherwise the stack
\* and the blocks are unchanged.
C1_ClosingFencePopsTop == [][C1_Step]_vars

\* A 3-colon line has left a 4-colon opener open, and a 4-colon line has
\* closed a 3-colon opener.
C1_Witness ==
    /\ pc = "done"
    /\ content = join_lines(<<Rep(":", 4) \o <<" ", "b">>, Rep(":", 3),
                              Rep(":", 3) \o <<"a">>, Rep(":", 4) \o <<" ">>>>,
                            <<"\n">>, TRUE)
    /\ Len(stack) = 1 /\ stack[1].colon_count = 4
    /\ Len(blocks) = 1 /\ blocks[1].head = <<"a">>

\* Two ranges are disjoint, or the second lies strictly inside the first.
DisjointOrInside(a, b) ==
    \/ a.end <= b.start
    \/ (a.start < b.start /\ b.end < a.end)

\* C2: the returned blocks are sorted by ascending range start, no two share
\* a start, and any two are disjoint or properly nested, the enclosing block
\* first.
C2_RangesNestedAndSorted ==
    pc = "done" =>
        \A i, j \in 1..Len(blocks) :
            i < j => /\ blocks[i].start < blocks[j].start
                     /\ DisjointOrInside(blocks[i], blocks[j])

\* A wrapper block followed by the two sibling blocks nested in it.
C2_Witness ==
    /\ pc = "done"
    /\ Len(blocks) = 3
    /\ blocks[2].start > blocks[1].start /\ blocks[2].end < blocks[1].end
    /\ blocks[3].start >= blocks[2].end /\ blocks[3].end < blocks[1].end

C3_Step ==
    AtLine =>
        LET raw == Head(lines)
        IN  /\ code_fence # None =>
                /\ stack' = stack
                /\ blocks' = blocks
                /\ code_fence' =
                       IF FenceRunLine(raw, code_fence.val.ch, code_fence.val.count)
                       THEN None ELSE code_fence
            /\ code_fence = None =>
                \A c \in {Backtick, Tilde} : \A k \in 3..Len(raw) :
                    OpensCodeFence(raw, c, k) =>
                        /\ code_fence' = Some([ch |-> c, count |-> k])
                        /\ stack' = stack
                        /\ blocks' = blocks

\* C3: a valid opening code fence of k characters c opens a code fence; while
\* it is open no line pushes or pops a frame, and only a line of at most three
\* spaces, at least k characters c and trailing whitespace closes it.
C3_CodeFenceSuppressesDirectives == [][C3_Step]_vars

\* A 4-backtick fence that a 3-backtick line did not close has hidden a
\* directive to the end of the input.
C3_Witness ==
    /\ pc = "done"
    /\ content = join_lines(<<Rep(Backtick, 4), Rep(":", 3) \o <<"a">>,
                              Rep(":", 3), Rep(Backtick, 3)>>, <<"\n">>, TRUE)
    /\ code_fence = Some([ch |-> Backtick, count |-> 4])
    /\ blocks = <<>> /\ stack = <<>>

\* C4: the blocks are as many as the lines that popped a frame; at the end
\* of the input no block is returned for a frame still on the stack, and the
\* blocks are at most as many as the opening fence lines.
C4_UnclosedFramesDiscarded ==
    /\ Len(blocks) = pops
    /\ pc = "done" =>
        /\ Len(blocks) <= NumOpeningLines(content)
        /\ \A i \in 1..Len(stack) : \A j \in 1..Len(blocks) :
               blocks[j].start # stack[i].range_start

\* The input has ended with a frame open and a block returned.
C4_Witness == pc = "done" /\ stack # <<>> /\ blocks # <<>>

C5_Block(b) ==
    LET body_start == AfterLine(content, b.start)
        closing    == LastLineStart(content, b.end)
    IN  /\ IsLineStart(content, b.start)
        /\ OpeningShape(LineText(content, b.start))
        /\ body_start <= closing
        /\ ClosingShape(LineText(content, closing))
        /\ b.end = AfterLine(content, closing)
        /\ b.body = StripOneTerminator(Slice(content, body_start, closing))
        /\ body_start = closing => b.body = <<>>

\* C5: a block's range runs from the first byte of its opening fence line to
\* just after its closing fence line, and its body is the text between the
\* two lines without one trailing line terminator.
C5_RangeAndBody == \A i \in 1..Len(blocks) : C5_Block(blocks[i])

\* In a CRLF text without a final newline, a block that ends at the end of
\* the input and holds a nested fence line, and a block with an empty body.
C5_Witness ==
    /\ pc = "done"
    /\ contains(content, "\r")
    /\ content[Len(content)] # "\n"
    /\ \E i \in 1..Len(blocks) :
           blocks[i].end = Len(content) /\ contains(blocks[i].body, ":")
    /\ \E i \in 1..Len(blocks) : blocks[i].body = <<>>

\* The frames a closing fence of n colons could close by its colon count.
Closable(n) == { i \in 1..Len(stack) : stack[i].colon_count <= n }

Last(S) == CHOOSE i \in S : \A j \in S : j <= i

C6_OriginalStep ==
    (AtLine /\ code_fence = None /\ ClosingShape(Head(lines))) =>
        LET n == ColonRun(Head(lines))
        IN  Closable(n) # {} =>
                LET m == Last(Closable(n))
                IN  /\ stack' = SubSeq(stack, 1, m - 1)
                                \o SubSeq(stack, m + 1, Len(stack))
                    /\ Len(blocks') = Len(blocks) + 1
                    /\ blocks'[Len(blocks')].start = stack[m].range_start

\* C6 as stated: a closing fence of n colons closes the most recently opened
\* open frame among those opened with at most n colons, whenever there is one.
C6_ClosesNearestFittingFrame == [][C6_OriginalStep]_vars

C6_Step ==
    (AtLine /\ code_fence = None /\ ClosingShape(Head(lines))) =>
        LET n == ColonRun(Head(lines))
            d == Len(stack)
        IN  /\ (Closable(n) # {} /\ Last(Closable(n)) = d) =>
                  /\ Len(stack') = d - 1
                  /\ blocks'[Len(blocks')].start = stack[d].range_start
            /\ \A i \in 1..(d - 1) : Len(stack') >= i /\ stack'[i] = stack[i]
            /\ (Closable(n) # {} /\ Last(Closable(n)) < d) =>
                  stack' = stack /\ blocks' = blocks

\* C6 as amended: a closing fence of n colons closes the most recently opened
\* open frame when that frame was opened with at most n colons; it never
\* closes a frame below the topmost one, so when the nearest frame it fits
\* lies below the topmost one it closes nothing.
C6_ClosesTopmostOrNothing == [][C6_Step]_vars

\* A 3-colon line has met a 4-colon frame on top of a 3-colon frame and has
\* closed neither.
C6_Witness ==
    /\ pc = "done"
    /\ content = join_lines(<<Rep(":", 3) \o <<"a">>, Rep(":", 4) \o <<" ", "b">>,
                              Rep(":", 3)>>, <<"\n">>, TRUE)
    /\ Len(stack) = 2
    /\ blocks = <<>>


\* ------------------------------------------------------------------------
\* Properties of the pipeline
\* ------------------------------------------------------------------------

\* Block b lies inside another block o.
Inside(b, o) == o # b /\ o.start <= b.start /\ b.end <= o.end

\* The indices of the blocks that lie inside no other block.
Outermost(blks) ==
    { i \in 1..Len(blks) : \A j \in 1..Len(blks) : ~Inside(blks[i], blks[j]) }

RECURSIVE Pick(_, _, _)
\* The elements of seq at the indices in I, from index i on, in order.
Pick(seq, I, i) ==
    IF i > Len(seq) THEN <<>>
    ELSE (IF i \in I THEN <<seq[i]>> ELSE <<>>) \o Pick(seq, I, i + 1)

\* The end of the last block kept before index i; 0 when none is.
PreviousKeptEnd(blks, kept, i) ==
    LET before == { j \in 1..(i - 1) : blks[j] \in Range(kept) }
    IN  IF before = {} THEN 0 ELSE blks[Last(before)].end

C7_Activation(act) ==
    LET all == act.all_blocks
        top == act.top_level
    IN  /\ top = Pick(all, Outermost(all), 1)
        /\ \A i \in 1..Len(all) :
               all[i] \in Range(top) <=> all[i].start >= PreviousKeptEnd(all, top, i)
        /\ \A i, j \in 1..Len(top) : i < j => top[i].end <= top[j].start
        /\ \A i \in 1..Len(all) :
               all[i] \notin Range(top) =>
                   Cardinality({ k \in 1..Len(top) : Inside(all[i], top[k]) }) = 1

\* C7: of the sorted blocks of one scan, top_level_blocks keeps exactly those
\* that lie inside no other block: a block is kept iff it starts at or after
\* the end of the block kept before it; the kept blocks are disjoint and
\* ascending, and each other block lies inside exactly one kept block.
C7_TopLevelBlocks == \A k \in 1..Len(calls) : C7_Activation(calls[k])

\* A scan of three blocks: a kept block with a block nested in it, and a kept
\* block that starts where the first one ends.
C7_Witness ==
    /\ calls # <<>>
    /\ Len(calls[1].all_blocks) = 3
    /\ Len(calls[1].top_level) = 2
    /\ calls[1].top_level[2].start = calls[1].top_level[1].end
    /\ Inside(calls[1].all_blocks[2], calls[1].top_level[1])

RECURSIVE Expected(_)
RECURSIVE Stitch(_, _, _)
\* The text from offset `from` on, with each of the blocks replaced by its
\* padded HTML, built left to right.
Stitch(text, blks, from) ==
    IF blks = <<>> THEN SliceFrom(text, from)
    ELSE Slice(text, from, Head(blks).start)
         \o <<"\n">>
         \o render_directive_block(Head(blks).head,
                                   markdown_html(Expected(Head(blks).body)))
         \o <<"\n">>
         \o Stitch(text, Tail(blks), Head(blks).end)

\* The text with the range of every outermost block replaced by "\n", the
\* HTML of the block and "\n", and everything else as it was.
Expected(text) ==
    LET all == parse_directives(text)
    IN  Stitch(text, Pick(all, Outermost(all), 1), 0)

\* The text the call that has just returned was given.
Returned == IF calls = <<>> THEN page ELSE Head(Caller.pending).body

\* C8: every range yet to be replaced lies inside the partly rewritten text
\* and holds there the text it held in the original; and the text returned
\* is the original with each top-level range replaced by its padded HTML.
C8_SplicesKeepRangesValid ==
    /\ \A k \in 1..Len(calls) : \A i \in 1..Len(calls[k].pending) :
           LET b == calls[k].pending[i]
           IN  /\ b.end <= Len(calls[k].result)
               /\ Slice(calls[k].result, b.start, b.end)
                      = Slice(calls[k].content, b.start, b.end)
    /\ ret # None => ret.val = Expected(Returned)

\* The length of what replaces block b, less the length of its range.
Growth(b) ==
    Len(padded_html(render_directive_block(b.head,
            markdown_html(Expected(b.body))))) - (b.end - b.start)

\* A page has been rewritten whose last top-level block was replaced by a
\* longer text and whose first by a shorter one.
C8_Witness ==
    /\ calls = <<>> /\ ret # None
    /\ LET top == top_level_blocks(parse_directives(page))
       IN  /\ Len(top) = 2
           /\ Growth(top[2]) > 0
           /\ Growth(top[1]) < 0
           /\ top[1].start > 0

\* ------------------------------------------------------------------------
\* Properties of the heading ids
\* ------------------------------------------------------------------------

\* C9: the ids of the headings collected in one render are pairwise distinct.
C9_HeadingIdsDistinct ==
    \A i, j \in 1..Len(headings) : i # j => headings[i].id # headings[j].id

\* A heading whose raw id foo-1 looks like a suffixed id, between two
\* headings of raw id foo.
C9_Witness ==
    /\ Len(headings) = 3
    /\ headings[1].raw_id = Str_foo
    /\ headings[2].raw_id = Str_foo \o <<"-", "1">>
    /\ headings[3].raw_id = Str_foo
    /\ headings[3].id = Str_foo \o <<"-", "2">>

\* y is x followed by a dash and the decimal digits of a positive number.
IsSuffixedFrom(y, x) ==
    /\ Len(y) > Len(x) + 1
    /\ SubSeq(y, 1, Len(x)) = x
    /\ y[Len(x) + 1] = "-"
    /\ \A i \in (Len(x) + 2)..Len(y) : y[i] \in Range(Digits)
    /\ y[Len(x) + 2] # "0"

\* The indices of the headings of raw id x, in document order.
WithRawId(x) == { i \in 1..Len(headings) : headings[i].raw_id = x }

\* The headings of raw id x have the ids x, x-1, x-2, ... in document order.
NumberedInOrder(x) ==
    \A i \in WithRawId(x) :
        LET earlier == Cardinality({ j \in WithRawId(x) : j < i })
        IN  headings[i].id = IF earlier = 0 THEN x ELSE suffixed_id(x, earlier)

\* C10 as stated: when no other heading has a raw id X-j, the headings of raw
\* id X receive X, X-1, ..., X-(k-1) in document order.
C10_NumberedWhenNoRawSuffix ==
    \A i \in 1..Len(headings) :
        LET x == headings[i].raw_id
        IN  (\A j \in 1..Len(headings) : ~IsSuffixedFrom(headings[j].raw_id, x))
                => NumberedInOrder(x)

\* C10 as amended: when no heading of another raw id has the final id X or
\* X-j, the headings of raw id X receive X, X-1, ..., X-(k-1) in document
\* order.
C10_NumberedWhenNoOtherIdInterferes ==
    \A i \in 1..Len(headings) :
        LET x == headings[i].raw_id
        IN  (\A j \in 1..Len(headings) :
                 (headings[j].id = x \/ IsSuffixedFrom(headings[j].id, x))
                     => headings[j].raw_id = x)
                => NumberedInOrder(x)

\* Three headings of text Foo have the ids foo, foo-1 and foo-2, among
\* headings of another raw id.
C10_Witness ==
    /\ Len(headings) = 4
    /\ headings[1].id = Str_foo /\ headings[1].title = <<"F", "o", "o">>
    /\ headings[2].raw_id # Str_foo
    /\ headings[3].id = Str_foo \o <<"-", "1">> /\ headings[3].raw_id = Str_foo
    /\ headings[4].id = Str_foo \o <<"-", "2">> /\ headings[4].raw_id = Str_foo

\* ------------------------------------------------------------------------
\* First use of a heading id
\* ------------------------------------------------------------------------

\* No heading before the i-th has the raw id of the i-th.
FirstOfRawId(i) ==
    \A j \in 1..(i - 1) : headings[j].raw_id # headings[i].raw_id

\* No heading before the i-th has received the raw id of the i-th as its id.
RawIdUnused(i) ==
    \A j \in 1..(i - 1) : headings[j].id # headings[i].raw_id

\* C11 as stated: the first heading whose raw id is X receives the id X,
\* whatever headings precede it.
C11_FirstOfRawIdUnchanged ==
    \A i \in 1..Len(headings) : FirstOfRawId(i) => headings[i].id = headings[i].raw_id

\* C11 as amended: a heading whose raw id X no earlier heading has received
\* as its final id receives the id X unchanged, and a heading whose raw id
\* is already taken never does.
C11_UnusedRawIdUnchanged ==
    \A i \in 1..Len(headings) :
        RawIdUnused(i) <=> headings[i].id = headings[i].raw_id

\* A heading of raw id foo-1 keeps its id after headings of other raw ids,
\* and a later heading of raw id foo is numbered around it.
C11_Witness ==
    /\ Len(headings) = 4
    /\ headings[1].raw_id = Str_foo
    /\ headings[2].raw_id = <<"s", "e", "c", "t", "i", "o", "n">>
    /\ headings[3].raw_id = Str_foo \o <<"-", "1">>
    /\ headings[3].id = Str_foo \o <<"-", "1">>
    /\ headings[4].raw_id = Str_foo
    /\ headings[4].id = Str_foo \o <<"-", "2">>

\* ------------------------------------------------------------------------
\* Properties of the table of contents, read off the written HTML
\* ------------------------------------------------------------------------

\* The number of chunks equal to c among the first k chunks of the HTML.
CountBefore(c, k) == Cardinality({ p \in 1..k : toc_html[p] = c })

\* The number of <ul> elements open after the first k chunks.
OpenLists(k) == CountBefore(UlOpen, k) - CountBefore(UlClose, k)

\* The position of the chunk that opens the <li> of the i-th entry.
EntryPosition(i) ==
    CHOOSE p \in 1..Len(toc_html) :
        toc_html[p] = EntryOpen /\ CountBefore(EntryOpen, p) = i

\* The number of entries written so far.
EntriesWritten == Len(toc_entries) - Len(toc_rest)

\* The least level of all entries.
LeastLevel ==
    CHOOSE m \in HeadingLevels :
        /\ \E i \in DOMAIN toc_entries : toc_entries[i].level = m
        /\ \A i \in DOMAIN toc_entries : toc_entries[i].level >= m

\* C12: each entry is written with level - min(level) + 1 lists open, the
\* minimum taken over all entries, whatever entries precede it.
C12_EntryDepthIsNormalizedLevel ==
    tpc \in {"loop", "done"} =>
        /\ CountBefore(EntryOpen, Len(toc_html)) = EntriesWritten
        /\ \A i \in 1..EntriesWritten :
               OpenLists(EntryPosition(i)) = toc_entries[i].level - LeastLevel + 1

\* The levels H3, H2 in this order: the H3 entry is written one list deeper
\* than the H2 entry that follows it.
C12_Witness ==
    /\ tpc = "done"
    /\ Len(toc_entries) = 2
    /\ toc_entries[1].level = 3 /\ toc_entries[2].level = 2
    /\ OpenLists(EntryPosition(1)) = 2
    /\ OpenLists(EntryPosition(2)) = 1

\* The tag chunks of the HTML and the element each opens or closes.
Opens(c) ==
    IF c = NavOpen THEN "nav"
    ELSE IF c = UlOpen THEN "ul"
    ELSE IF c \in {LiOpen, EntryOpen} THEN "li"
    ELSE "none"

Closes(c) ==
    IF c = NavClose THEN "nav"
    ELSE IF c = UlClose THEN "ul"
    ELSE IF c = LiClose THEN "li"
    ELSE "none"

\* An element may be opened here: the <nav> at the top, a <ul> inside the
\* <nav> or inside an open <li>, an <li> inside a <ul>.
MayOpen(e, open) ==
    IF e = "nav" THEN open = <<>>
    ELSE IF e = "ul" THEN open # <<>> /\ open[Len(open)] \in {"nav", "li"}
    ELSE open # <<>> /\ open[Len(open)] = "ul"

IsTag(c) == Opens(c) # "none" \/ Closes(c) # "none"

RECURSIVE ReadTags(_, _)
\* The elements open after the tags, read into the stack `open`, innermost
\* last; <<"bad">> when a tag is misplaced or closes an element that is not
\* the innermost open one.
ReadTags(tags, open) ==
    IF tags = <<>> THEN open
    ELSE LET c == Head(tags)
         IN  IF Opens(c) # "none"
             THEN IF MayOpen(Opens(c), open)
                  THEN ReadTags(Tail(tags), Append(open, Opens(c)))
                  ELSE <<"bad">>
             ELSE IF open # <<>> /\ open[Len(open)] = Closes(c)
                  THEN ReadTags(Tail(tags), SubSeq(open, 1, Len(open) - 1))
                  ELSE <<"bad">>

\* The elements open after the chunks of html.
OpenElements(html) == ReadTags(SelectSeq(html, IsTag), <<>>)

\* The stack of a list nested d levels deep with its innermost item open.
OpenAtDepth(d) ==
    <<"nav">> \o [i \in 1..(2 * d) |-> IF i % 2 = 1 THEN "ul" ELSE "li"]

\* C13: the tags of the table of contents are properly nested and balanced,
\* every <ul> but the outermost opens inside an open <li>, all levels are
\* closed at the end with the depth back at 0, and no entries give the empty
\* string.
C13_TocWellNested ==
    /\ tpc = "loop" => OpenElements(toc_html) = OpenAtDepth(toc_depth)
    /\ tpc = "done" =>
           /\ OpenElements(toc_html) = <<>>
           /\ toc_depth = 0
           /\ CountBefore(UlOpen, Len(toc_html))
                  = CountBefore(UlClose, Len(toc_html))
           /\ \A p \in 2..Len(toc_html) :
                  toc_html[p] = UlOpen /\ OpenLists(p - 1) > 0
                      => OpenElements(SubSeq(toc_html, 1, p - 1))
                             = OpenAtDepth(OpenLists(p - 1))
           /\ toc_entries = <<>> <=> toc_html = <<>>

\* H1 directly followed by H4 and then H2: two wrapper items were written
\* for the skipped depths and every level is closed.
C13_Witness ==
    /\ tpc = "done"
    /\ Len(toc_entries) = 3
    /\ toc_entries[1].level = 1
    /\ toc_entries[2].level = 4
    /\ toc_entries[3].level = 2
    /\ CountBefore(LiOpen, Len(toc_html)) = 2
    /\ CountBefore(UlOpen, Len(toc_html)) = 4

\* ------------------------------------------------------------------------
\* Properties of render_page
\* ------------------------------------------------------------------------

\* The lines of a text, without their terminators.
LinesOf(text) ==
    LET ls == split_newline(text)
    IN  [i \in 1..Len(ls) |-> strip_suffix_or(ls[i], "\r")]

\* No closing fence line follows a directive opening line: every directive
\* fence of the text is left unclosed.
NoClosedDirective(text) ==
    LET ls == LinesOf(text)
    IN  \A i \in 1..Len(ls) : \A j \in (i + 1)..Len(ls) :
            ~(OpeningShape(ls[i]) /\ ClosingShape(ls[j]))

\* render_directives has returned to render_page.
DirectivesReturned == calls = <<>> /\ ret # None

\* C14: when the scan of the page finds no block, render_directives returns
\* the page unchanged without a recursive call, the content HTML is the HTML
\* of render_markdown on the page itself and the table of contents is that of
\* the headings of that one render.
C14_NoDirectivesIsPlainMarkdown ==
    (NoClosedDirective(page) \/ parse_directives(page) = <<>>) =>
        /\ calls = <<>>
        /\ DirectivesReturned => ret.val = page
        /\ rendered # None =>
               /\ rendered.val.content_html = render_markdown(page).html
               /\ rendered.val.toc_html
                      = render_toc_html(render_markdown(page).headings)
               /\ md_calls = <<[content  |-> page,
                                headings |-> render_markdown(page).headings]>>

\* A page with a heading and a directive fence that is never closed has been
\* rendered: the fence stays in the text as a paragraph.
C14_Witness ==
    /\ rendered # None
    /\ Len(LinesOf(page)) = 3
    /\ heading_level(LinesOf(page)[1]) = 1
    /\ OpeningShape(LinesOf(page)[2])
    /\ LinesOf(page)[3] = <<"x">>
    /\ parse_directives(page) = <<>>
    /\ rendered.val.content_html = render_markdown(page).html
    /\ rendered.val.toc_html # <<>>

\* ------------------------------------------------------------------------
\* Termination of the scan and of rendering
\* ------------------------------------------------------------------------

\* The number of blocks around block b, b included.
DepthOf(b, blks) ==
    1 + Cardinality({ i \in 1..Len(blks) : Inside(b, blks[i]) })

\* The directive nesting depth of a text: the longest chain of nested blocks.
NestingDepth(text) ==
    LET blks == parse_directives(text)
    IN  IF blks = <<>> THEN 0
        ELSE CHOOSE d \in 1..Len(blks) :
                 /\ \E i \in 1..Len(blks) : DepthOf(blks[i], blks) = d
                 /\ \A i \in 1..Len(blks) : DepthOf(blks[i], blks) <= d

\* The recursive calls of render_directives in progress below the call on
\* the page: the calls in their loop and the call about to start.
RecursionDepth ==
    IF calls = <<>> THEN 0
    ELSE (Len(calls) - 1) + (IF arg # None THEN 1 ELSE 0)

\* A step of the scanner takes the first of the remaining lines and never
\* moves the offset back; its last step only returns.
ScanStepForward ==
    scanVars' # scanVars =>
        \/ /\ lines # <<>>
           /\ lines' = Tail(lines)
           /\ offset' >= offset
           /\ offset' <= Len(content)
           /\ pc' = "scan"
        \/ /\ lines = <<>>
           /\ pc' = "done"
           /\ offset' = offset

\* Each call works on a text strictly shorter than the text of its caller,
\* and a call about to start on a text strictly shorter than the text the
\* body was scanned from.
CallsShrink ==
    /\ \A k \in 2..Len(calls) : Len(calls[k].content) < Len(calls[k - 1].content)
    /\ calls # <<>> /\ arg # None => Len(arg.val) < Len(Caller.content)
    /\ calls # <<>> => calls[1].content = page

\* C15: the scan is one forward pass over the lines and ends; rendering
\* ends; every recursive call is on a strictly shorter text and the
\* recursion is never deeper than the directives of the page are nested.
C15_RenderingTerminates ==
    /\ [][ScanStepForward]_vars
    /\ [](CallsShrink /\ RecursionDepth <= NestingDepth(page))
    /\ <>(pc = "done" /\ lines = <<>>)
    /\ <>(rendered # None)

\* A page of two nested directives has been scanned and rendered, and the
\* call on the body of the outer one was in its loop.
C15_Witness ==
    /\ pc = "done"
    /\ rendered # None
    /\ NestingDepth(page) = 2
    /\ Len(md_calls) = 3

\* ------------------------------------------------------------------------
\* Scope of the heading ids
\* ------------------------------------------------------------------------

\* The ids given to the headings before the i-th of one render_markdown call.
IdsBefore(hs, i) == { hs[j].id : j \in 1..(i - 1) }

\* The id of each heading of the call is the one deduplicate_id gives when
\* only the earlier headings of the same call are counted: the slug of the
\* title if none of them has it, else the slug with the least free number.
DedupWithinCall(hs) ==
    \A i \in 1..Len(hs) :
        LET raw == raw_heading_id(None, hs[i].title)
        IN  IF raw \notin IdsBefore(hs, i) THEN hs[i].id = raw
            ELSE \E n \in 1..Len(hs) :
                     /\ hs[i].id = suffixed_id(raw, n)
                     /\ hs[i].id \notin IdsBefore(hs, i)
                     /\ \A m \in 1..(n - 1) : suffixed_id(raw, m) \in IdsBefore(hs, i)

\* The offsets at which the lines of a text start.
LineStarts(text) == { p \in 0..Len(text) : IsLineStart(text, p) /\ p < Len(text) }

\* The line that starts at offset p lies in the range of a block.
InBlock(text, p) ==
    \E i \in 1..Len(parse_directives(text)) :
        /\ parse_directives(text)[i].start <= p
        /\ p < parse_directives(text)[i].end

\* The offsets of the heading lines of a text that lie in no block.
OuterHeadingStarts(text) ==
    { p \in LineStarts(text) :
        heading_level(LineText(text, p)) > 0 /\ ~InBlock(text, p) }

\* The offsets of the heading lines of a text that lie in a block.
InnerHeadingStarts(text) ==
    { p \in LineStarts(text) :
        heading_level(LineText(text, p)) > 0 /\ InBlock(text, p) }

\* The render_markdown call that render_page made on the processed page.
PageRender == md_calls[Len(md_calls)]

\* C16: every render_markdown call numbers its headings against the ids of
\* the same call only, and the headings and the table of contents of the
\* page are those of the heading lines outside the directive blocks.
C16_HeadingIdsScopedToOneRender ==
    /\ \A c \in 1..Len(md_calls) : DedupWithinCall(md_calls[c].headings)
    /\ rendered # None =>
           /\ Len(PageRender.headings) = Cardinality(OuterHeadingStarts(page))
           /\ DedupWithinCall(PageRender.headings)
           /\ rendered.val.toc_html = render_toc_html(PageRender.headings)

\* A page with a heading before a directive whose body holds the same
\* heading twice: the page has one heading, with the id foo, and the body
\* gave the ids foo and foo-1.
C16_Witness ==
    /\ rendered # None
    /\ Len(md_calls) = 2
    /\ Cardinality(InnerHeadingStarts(page)) = 2
    /\ Len(md_calls[1].headings) = 2
    /\ md_calls[1].headings[1].id = Str_foo
    /\ md_calls[1].headings[2].id = Str_foo \o <<"-", "1">>
    /\ Len(PageRender.headings) = 1
    /\ PageRender.headings[1].id = Str_foo

\* ------------------------------------------------------------------------
\* C17: block image or inline images
\* ------------------------------------------------------------------------

\* The paragraph is one image start, events that are no image start or end,
\* and one image end.
SoleImage(evs) ==
    /\ Len(evs) >= 2
    /\ evs[1].kind = "image_start"
    /\ evs[Len(evs)].kind = "image_end"
    /\ \A k \in 2..(Len(evs) - 1) : evs[k].kind \notin {"image_start", "image_end"}

\* The sources of the paragraph's images from event k on, in order; an image
\* inside another image's description belongs to that description.
RECURSIVE ImageSourcesFrom(_, _)
ImageSourcesFrom(evs, k) ==
    IF k > Len(evs) THEN <<>>
    ELSE (IF evs[k].kind = "image_start" /\ ImageDepth(evs, k - 1) = 0
          THEN <<evs[k].dest_url>> ELSE <<>>)
         \o ImageSourcesFrom(evs, k + 1)

\* The characters up to the chunk that ends the src attribute.
RECURSIVE SrcValue(_)
SrcValue(html) ==
    IF html = <<>> \/ Head(html) = "\" alt=\"" THEN <<>>
    ELSE <<Head(html)>> \o SrcValue(Tail(html))

\* The src values of the <img> tags of the HTML, in order.
RECURSIVE ImgSources(_)
ImgSources(html) ==
    IF html = <<>> THEN <<>>
    ELSE IF Head(html) = "<img src=\""
    THEN <<SrcValue(Tail(html))>> \o ImgSources(Tail(html))
    ELSE ImgSources(Tail(html))

\* The HTML of the paragraph: the output without the thematic break that
\* may precede the paragraph.
ParagraphHtml ==
    IF para_html.val # <<>> /\ Head(para_html.val) = "<hr />\n"
    THEN Tail(para_html.val) ELSE para_html.val

HasFigure(html) == \E k \in 1..Len(html) : html[k] = "<figure>\n"

InParagraphTags(html) ==
    /\ Len(html) >= 2
    /\ Head(html) = "<p>"
    /\ html[Len(html)] = "</p>\n"

\* C17: a paragraph is rendered as a <figure> exactly when its events are
\* one image start, no further image start or end, and one image end;
\* every other paragraph is rendered inside <p> and </p> without a
\* <figure> and with one inline <img> per image, in order.
C17_FigureIffSoleImage ==
    para_html # None =>
        /\ HasFigure(ParagraphHtml) <=> SoleImage(paragraph)
        /\ SoleImage(paragraph) =>
               /\ Head(ParagraphHtml) = "<figure>\n"
               /\ ImgSources(ParagraphHtml) = ImageSourcesFrom(paragraph, 1)
        /\ ~SoleImage(paragraph) =>
               /\ InParagraphTags(ParagraphHtml)
               /\ ImgSources(ParagraphHtml) = ImageSourcesFrom(paragraph, 1)

\* ------------------------------------------------------------------------
\* C18: the kind of a directive
\* ------------------------------------------------------------------------

\* The name is the word callout, each letter in either case.
IsCalloutName(name) ==
    /\ Len(name) = 7
    /\ \A i \in 1..7 :
           name[i] \in { <<"c", "a", "l", "l", "o", "u", "t">>[i],
                         <<"C", "A", "L", "L", "O", "U", "T">>[i] }

IsArgToken(token) == token.sort \notin {"id", "class"}

\* The tokens that are neither #id nor .class, as written, one space apart.
ArgTokensText(tokens) == JoinTokens(SelectSeq(tokens, IsArgToken), <<" ">>)

RECURSIVE ValuesOf(_, _)
ValuesOf(tokens, key) ==
    IF tokens = <<>> THEN <<>>
    ELSE (IF Head(tokens).sort = "pair" /\ Head(tokens).key = key
          THEN <<Head(tokens).value>> ELSE <<>>)
         \o ValuesOf(Tail(tokens), key)

\* The value spells the word, each letter in either case.
SpellsIgnoringCase(value, word) ==
    /\ Len(value) = Len(word)
    /\ \A i \in 1..Len(word) : to_ascii_lowercase(value[i]) = word[i]

IsKindValue(value) == \E k \in CalloutKinds : SpellsIgnoringCase(value, k)

RecognizedTypes(tokens) == SelectSeq(ValuesOf(tokens, TypeKey), IsKindValue)

RECURSIVE NamesOf(_, _)
NamesOf(tokens, sort) ==
    IF tokens = <<>> THEN <<>>
    ELSE (IF Head(tokens).sort = sort /\ Len(Head(tokens).text) > 1
          THEN <<Tail(Head(tokens).text)>> ELSE <<>>)
         \o NamesOf(Tail(tokens), sort)

\* C20: whatever the order of the tokens, the id is the name of the first
\* #name token, the classes are the names of all .name tokens in order
\* with repetitions, and a quoted value keeps the # and . words inside it:
\* they reach the args (and a callout's title) and never the id or the
\* classes.
C20_FirstIdAllClassesQuotesShield ==
    directive_kind # None =>
        LET ids    == NamesOf(head_tokens, "id")
            titles == ValuesOf(head_tokens, TitleKey)
        IN  /\ directive_head.val.id = IF ids = <<>> THEN None ELSE Some(ids[1])
            /\ directive_head.val.classes = NamesOf(head_tokens, "class")
            /\ directive_head.val.args = ArgTokensText(head_tokens)
            /\ directive_kind.val.tag = "Callout" /\ titles # <<>> =>
                   directive_kind.val.title = Some(titles[Len(titles)])

\* A quoted value with a # word and a . word, then two different ids, and
\* one class: the first id and that class alone are extracted.
C20_Witness ==
    /\ directive_kind # None
    /\ Len(head_tokens) = 4
    /\ \E i, j, k \in 1..4 :
           /\ i < j /\ j < k
           /\ head_tokens[i].sort = "pair" /\ head_tokens[i].key = TitleKey
           /\ head_tokens[j] = IdToken(<<"a">>)
           /\ head_tokens[k] = IdToken(<<"b">>)
    /\ \E m \in 1..4 : head_tokens[m] = ClassToken(<<"c">>)
    /\ directive_head.val.id = Some(<<"a">>)
    /\ directive_head.val.classes = <<<<"c">>>>

\* ------------------------------------------------------------------------
\* C21: quoted values
\* ------------------------------------------------------------------------

C21_UnclosedWitness ==
    /\ directive_kind # None
    /\ ~head_tokens[1].closed
    /\ directive_kind.val.title = Some(<<"a", "\"">>)

\* ------------------------------------------------------------------------
\* Indices of parse_directives and render_directives
\* ------------------------------------------------------------------------

\* Largest number of lines of a document whose indices are followed.
MaxIndexLines == 4

\* Directives that render to less text than they take, a longer opener, the
\* closers of both, text and a code fence.
IndexAlphabet ==
    { Rep(":", 3) \o <<"{", "}">>,
      Rep(":", 4) \o <<"b">>,
      Rep(":", 3),
      Rep(":", 4),
      <<"x">>,
      Rep(Tilde, 3) }

\* Either parse_directives runs on a document, with either line ending, or
\* render_directives does.
InitIndex ==
    /\ \/ /\ InitScan(Documents(IndexAlphabet, MaxIndexLines, LineEndings))
          /\ RenderIdle
       \/ /\ ScanIdle
          /\ InitRender(Documents(IndexAlphabet, MaxIndexLines, {<<"\n">>}))
    /\ HeadingsIdle
    /\ TocIdle
    /\ PageIdle /\ ParaIdle /\ HeadIdle

NextIndex == NextScan \/ NextRender

SpecIndex == InitIndex /\ [][NextIndex]_vars

\* The range of a block lies in the text and is not empty.
RangeInside(b, text) == 0 <= b.start /\ b.start < b.end /\ b.end <= Len(text)

\* C22: parse_directives and render_directives never index out of range.
\* While the loop of parse_directives has a line to read, offset is the
\* index at which that line starts (the rest of the text from offset is the
\* lines still to read) and offset <= next_offset <= len(content); the body
\* of every open frame starts at or before the offset of the line read, the
\* closing line included; every block emitted, by the scan of the document
\* and by the scans render_directives makes of the texts it is called on,
\* has 0 <= range.start < range.end <= len(content); and every range that
\* render_directives still has to replace lies inside the current result.
C22_IndicesInRange ==
    /\ (pc = "scan" /\ lines # <<>>) =>
          /\ 0 <= offset /\ offset <= Len(content)
          /\ SliceFrom(content, offset) = join_lines(lines, <<"\n">>, FALSE)
          /\ offset <= next_line_offset(content, offset, Head(lines))
          /\ next_line_offset(content, offset, Head(lines)) <= Len(content)
          /\ \A i \in 1..Len(stack) :
                /\ 0 <= stack[i].range_start
                /\ stack[i].range_start <= stack[i].body_start
                /\ stack[i].body_start <= offset
    /\ \A i \in 1..Len(blocks) : RangeInside(blocks[i], content)
    /\ \A d \in 1..Len(calls) :
          /\ \A i \in 1..Len(calls[d].all_blocks) :
                RangeInside(calls[d].all_blocks[i], calls[d].content)
          /\ \A i \in 1..Len(calls[d].pending) :
                RangeInside(calls[d].pending[i], calls[d].result)

\* render_directives has replaced a block by less text than it took and has
\* another range to replace in the shortened result.
C22_Witness ==
    /\ calls # <<>>
    /\ Caller.pending # <<>>
    /\ Len(Caller.result) < Len(Caller.content)

\* parse_directives has read a last line that has no line terminator and
\* closes a directive of a document with carriage returns: next_offset is
\* capped at the length of the text.
C22_ScanWitness ==
    /\ pc = "done"
    /\ content # <<>>
    /\ content[Len(content)] = ":"
    /\ contains(content, "\r")
    /\ \E i \in 1..Len(blocks) : blocks[i].end = Len(content)

\* ------------------------------------------------------------------------
\* render_page calls that interleave
\* ------------------------------------------------------------------------

\* Largest number of render_page calls in progress at once.
MaxRenders == 2

Heading_Foo == <<"#", " ", "F", "o", "o">>

\* Pages whose headings collide within the page, with a directive body and
\* with the other pages.
BuildPages ==
    { Heading_Foo,
      <<"x">>,
      join_lines(<<Rep(":", 3) \o <<"a">>, Heading_Foo, Rep(":", 3)>>,
                 <<"\n">>, FALSE),
      join_lines(<<Heading_Foo, Rep(":", 3) \o <<"a">>, <<"x">>, Rep(":", 3),
                   Heading_Foo>>, <<"\n">>, TRUE) }

\* The locals of a render_page call: its argument, the activations of
\* render_directives, the call or return in flight, and its return value.
Activation(p, cs, a, r, out) ==
    [page |-> p, calls |-> cs, arg |-> a, ret |-> r, rendered |-> out]

\* render_page has been called on page p and has not made a step.
render_page_called(p) == Activation(p, <<>>, Some(p), None, None)

\* render_page is called once for each page of the build (build.rs:44). One
\* call runs and the others wait; md_calls is the record of the
\* render_markdown calls of all of them, in the order they were made.
InitBuild ==
    /\ \E p \in BuildPages : InitRender({p})
    /\ md_calls = <<>>
    /\ rendered = None
    /\ \E n \in 1..(MaxRenders - 1) :
          parked \in [1..n -> { render_page_called(p) : p \in BuildPages }]
    /\ ScanIdle
    /\ HeadingsIdle
    /\ TocIdle
    /\ ParaIdle /\ HeadIdle

\* The running call stops between two steps and a waiting one goes on: the
\* locals of the two are exchanged, and nothing else is.
Yield ==
    /\ \E i \in 1..Len(parked) :
          /\ page' = parked[i].page
          /\ calls' = parked[i].calls
          /\ arg' = parked[i].arg
          /\ ret' = parked[i].ret
          /\ rendered' = parked[i].rendered
          /\ parked' = [parked EXCEPT
                           ![i] = Activation(page, calls, arg, ret, rendered)]
    /\ UNCHANGED <<md_calls, scanVars, headingVars, tocVars, paraVars, headVars,
                   passVars>>

NextBuild == NextPage \/ Yield

\* render_page calls for the pages of a build, interleaved at every step.
SpecBuild == InitBuild /\ [][NextBuild]_vars

\* render_page(raw_content) as a function of its argument alone.
RenderedAlone(raw_content) ==
    LET md_output == render_markdown(Expected(raw_content))
    IN  [content_html |-> md_output.html,
         toc_html     |-> render_toc_html(md_output.headings)]

\* The render_page calls in progress or returned: the running one and the
\* waiting ones.
Activations ==
    {Activation(page, calls, arg, ret, rendered)}
        \cup { parked[i] : i \in 1..Len(parked) }

\* C23: however the steps of the render_page calls of different pages
\* interleave, the RenderedPage each call returns is the one render_page
\* gives for that page alone, and a call changes the locals of no other call.
C23_InterleavedRendersIndependent ==
    /\ [](\A a \in Activations :
             a.rendered # None => a.rendered.val = RenderedAlone(a.page))
    /\ [][\/ parked' = parked
          \/ \E i \in 1..Len(parked) :
                /\ parked' = [parked EXCEPT
                       ![i] = Activation(page, calls, arg, ret, rendered)]
                /\ Activation(page', calls', arg', ret', rendered') = parked[i]]_vars

\* Two calls have returned whose render_markdown calls interleaved: the
\* call for the page of a heading, a directive and the heading again made the
\* first and the third, the call for the page of one heading the second.
C23_Witness ==
    /\ rendered # None
    /\ Len(parked) = 1 /\ parked[1].rendered # None
    /\ parked[1].page = Heading_Foo
    /\ Len(md_calls) = 3
    /\ md_calls[1].content = <<"x">>
    /\ md_calls[2].content = Heading_Foo
    /\ Len(md_calls[3].headings) = 2

\* ------------------------------------------------------------------------
\* Suffixed heading ids
\* ------------------------------------------------------------------------

\* The ids given to the headings before the i-th of the render.
EarlierIds(i) == { headings[j].id : j \in 1..(i - 1) }

\* The raw ids of the headings, in document order.
RawIds == [i \in 1..Len(headings) |-> headings[i].raw_id]

\* The ids of the headings, in document order.
FinalIds == [i \in 1..Len(headings) |-> headings[i].id]

\* C24: deduplicate_id records every id it returns, and a heading whose raw
\* id X is taken receives X-n for the least n >= 1 such that X-n is the id
\* of no earlier heading, be that id the raw id of its heading or a
\* generated one; so the raw ids foo, foo-1, foo, foo-2 give the ids foo,
\* foo-1, foo-2, foo-2-1.
C24_SuffixSkipsUsedCandidates ==
    /\ used_ids = { headings[i].id : i \in 1..Len(headings) }
    /\ \A i \in 1..Len(headings) :
          LET x == headings[i].raw_id
          IN  x \in EarlierIds(i) =>
                 \E n \in 1..Len(headings) :
                     /\ headings[i].id = suffixed_id(x, n)
                     /\ headings[i].id \notin EarlierIds(i)
                     /\ \A m \in 1..(n - 1) : suffixed_id(x, m) \in EarlierIds(i)
    /\ (/\ Len(headings) >= 4
        /\ SubSeq(RawIds, 1, 4) = <<Str_foo, Str_foo \o <<"-", "1">>, Str_foo,
                                    Str_foo \o <<"-", "2">>>>)
          => SubSeq(FinalIds, 1, 4)
                 = <<Str_foo, Str_foo \o <<"-", "1">>, Str_foo \o <<"-", "2">>,
                     Str_foo \o <<"-", "2", "-", "1">>>>

\* The headings of raw ids foo, foo-1, foo, foo-2 have been collected: the
\* third skipped the raw id of the second, the fourth the generated id of
\* the third.
C24_Witness ==
    /\ Len(headings) = 4
    /\ RawIds = <<Str_foo, Str_foo \o <<"-", "1">>, Str_foo, Str_foo \o <<"-", "2">>>>
    /\ headings[4].id = Str_foo \o <<"-", "2", "-", "1">>
    /\ headings[4].id \in used_ids

\* ------------------------------------------------------------------------
\* Opening fences
\* ------------------------------------------------------------------------

\* Largest number of lines of a document of opening fences.
MaxOpenLines == 3

\* Openers with a name, with braces only and after two words; the same
\* indented; two colons and a name; closers, one indented, one with a space
\* after it; and a code fence.
OpenAlphabet ==
    { Rep(":", 3) \o <<"a">>,
      Rep(":", 4) \o <<" ", "{", "}">>,
      Rep(":", 3) \o <<"a", " ", "b">>,
      <<" ">> \o Rep(":", 3) \o <<"a">>,
      Rep(":", 2) \o <<"a">>,
      Rep(":", 3),
      <<" ">> \o Rep(":", 3),
      Rep(":", 3) \o <<" ">>,
      Rep(Tilde, 3) }

InitOpen ==
    /\ InitScan(Documents(OpenAlphabet, MaxOpenLines, LineEndings))
    /\ RenderIdle
    /\ HeadingsIdle
    /\ TocIdle
    /\ PageIdle /\ ParaIdle /\ HeadIdle

\* The scanner on documents of opening fences, well formed or not.
SpecOpen == InitOpen /\ [][Next]_vars

\* The line starts with whitespace.
Indented(line) == line # <<>> /\ is_whitespace(line[1])

\* The step pushes one frame and leaves the frames below and the blocks.
PushesOneFrame ==
    /\ Len(stack') = Len(stack) + 1
    /\ SubSeq(stack', 1, Len(stack)) = stack
    /\ blocks' = blocks

C25_Step ==
    AtLine =>
        LET line == Head(lines)
        IN  /\ code_fence = None =>
                  /\ PushesOneFrame <=> OpeningShape(line)
                  /\ OpeningShape(line) =>
                        /\ stack'[Len(stack')].colon_count = ColonRun(line)
                        /\ stack'[Len(stack')].range_start = offset
                        /\ stack'[Len(stack')].body_start = offset'
                        /\ offset' = AfterLine(content, offset)
            /\ (Indented(line) \/ ColonRun(line) < 3) =>
                  stack' = stack /\ blocks' = blocks

\* C25: outside a code fence a line pushes a frame exactly when it has a run
\* of at least three colons at column 0 and text that is not whitespace after
\* the run; it then pushes one frame, whatever the text, whose range starts
\* at the start of the line and whose body starts at the start of the next
\* line; a line that starts with whitespace or has fewer than three colons
\* at column 0 neither pushes nor pops.
C25_OpeningFencePushesOneFrame == [][C25_Step]_vars

\* An indented opener and an indented closer were read as text inside a
\* directive whose opener held only braces after the colons and a space.
C25_Witness ==
    /\ pc = "scan"
    /\ lines = <<>>
    /\ Len(stack) = 1
    /\ stack[1].colon_count = 4
    /\ stack[1].range_start = 0
    /\ stack[1].body_start = Len(Rep(":", 4) \o <<" ", "{", "}", "\r", "\n">>)
    /\ blocks = <<>>
    /\ content = join_lines(<<Rep(":", 4) \o <<" ", "{", "}">>,
                               <<" ">> \o Rep(":", 3) \o <<"a">>,
                               <<" ">> \o Rep(":", 3)>>, <<"\r", "\n">>, FALSE)

\* ------------------------------------------------------------------------
\* The scan of a body against the scan of the whole text
\* ------------------------------------------------------------------------

\* What the kind, the id and the classes of a block are derived from, and its
\* body.
HeadAndBody(b) == [head |-> b.head, body |-> b.body]

\* The blocks whose ranges lie strictly inside the range of b, in the order
\* of blks.
StrictlyInside(blks, b) ==
    Pick(blks, { i \in 1..Len(blks) :
                    b.start < blks[i].start /\ blks[i].end < b.end }, 1)

\* The state of the loop of parse_directives after the last line of text.
ScanEnd(text) == scan_lines(text, scan_start, split_newline(text))

\* C26: for every block B that parse_directives returns, the scan of the body
\* of B ends with no open frame and returns blocks whose heads (hence kinds,
\* ids and classes) and bodies are, in order, those of the blocks of the whole
\* scan that lie strictly inside the range of B.
C26_BodyScanFindsNestedBlocks ==
    pc = "done" =>
        \A k \in 1..Len(blocks) :
            LET B      == blocks[k]
                nested == StrictlyInside(blocks, B)
                inner  == parse_directives(B.body)
            IN  /\ ScanEnd(B.body).stack = <<>>
                /\ Len(inner) = Len(nested)
                /\ \A i \in 1..Len(inner) :
                       HeadAndBody(inner[i]) = HeadAndBody(nested[i])
                /\ \A i \in 1..Len(inner) :
                       parse_directive_head(inner[i].head)
                           = parse_directive_head(nested[i].head)

\* A wrapper of four colons around a directive that holds another one: the
\* scan of the body of the wrapper returns the two, the scan of the body of
\* the directive returns the one it holds.
C26_Witness ==
    /\ pc = "done"
    /\ Len(blocks) = 3
    /\ blocks[1].start = 0 /\ blocks[1].end = Len(content)
    /\ Len(parse_directives(blocks[1].body)) = 2
    /\ Len(parse_directives(blocks[2].body)) = 1
    /\ blocks[3].body = <<>>
    /\ blocks[3].end < blocks[2].end

\* ------------------------------------------------------------------------
\* Blocks inside a directive that is never closed
\* ------------------------------------------------------------------------

\* Largest number of lines of a document with a directive left open.
MaxUnclosedLines == 5

\* render_directives scans the text before it does anything else: the steps
\* of the scan of the page come first.
InitUnclosed ==
    /\ InitScan(Documents(NestAlphabet, MaxUnclosedLines, {<<"\n">>}))
    /\ InitRender({content})
    /\ HeadingsIdle
    /\ TocIdle
    /\ PageIdle /\ ParaIdle /\ HeadIdle

NextUnclosed == NextScan \/ (pc = "done" /\ NextRender)

\* parse_directives and then render_directives on documents of openers and
\* closers.
SpecUnclosed == InitUnclosed /\ [][NextUnclosed]_vars

\* A closing fence that fits the innermost frame pops that frame alone and
\* emits its block, however many frames enclose it.
C27_Step ==
    (/\ AtLine /\ code_fence = None /\ ClosingShape(Head(lines))
     /\ stack # <<>>
     /\ stack[Len(stack)].colon_count <= ColonRun(Head(lines))) =>
        /\ stack' = SubSeq(stack, 1, Len(stack) - 1)
        /\ blocks' = Append(blocks,
               close_block(content, stack[Len(stack)], offset, offset'))

\* After the scan: a frame left open has no block, the blocks closed while
\* it was open are kept, render_directives takes every block that lies in no
\* other block as a top-level block, and the opening line of a frame left
\* open before the first block is in the text render_directives returns.
C27_AfterScan ==
    pc = "done" =>
        /\ \A i \in 1..Len(stack) : \A k \in 1..Len(blocks) :
               blocks[k].start # stack[i].range_start
        /\ (calls # <<>> /\ calls[1].content = page) =>
               \A k \in Outermost(blocks) :
                   \E j \in 1..Len(calls[1].top_level) :
                       calls[1].top_level[j] = blocks[k]
        /\ (DirectivesReturned /\ stack # <<>>
                /\ \A k \in 1..Len(blocks) : blocks[k].start >= stack[1].body_start) =>
               Slice(ret.val, stack[1].range_start, stack[1].body_start)
                   = Slice(content, stack[1].range_start, stack[1].body_start)

\* C27: a block closed while an enclosing frame is open is emitted whether
\* or not the enclosing frame is closed later; a frame that is never closed
\* yields no block, render_directives treats the blocks inside it as
\* top-level blocks and leaves its opening line in the text; a closing fence
\* pops the innermost frame only, so that with the frames of 4, 3 and 3
\* colons open a line of 3 colons closes the third and a following line of 4
\* colons closes the second.
C27_InnerBlockSurvivesUnclosedOuter == [][C27_Step]_vars /\ []C27_AfterScan

\* The text of the test closing_fence_cannot_skip_unclosed_inner has been
\* scanned and rendered: the opener of 4 colons is left open, the two
\* directives of 3 colons are blocks, the line of 4 colons closed the first
\* of them, and the returned text starts with the opener of 4 colons.
C27_Witness ==
    /\ pc = "done"
    /\ content = join_lines(<<Rep(":", 4) \o <<"b">>, Rep(":", 3) \o <<"a">>,
                              Rep(":", 3) \o <<"a">>, Rep(":", 3), Rep(":", 4)>>,
                            <<"\n">>, TRUE)
    /\ Len(stack) = 1 /\ stack[1].colon_count = 4 /\ stack[1].range_start = 0
    /\ Len(blocks) = 2
    /\ blocks[1].start = stack[1].body_start /\ blocks[1].end = Len(content)
    /\ blocks[2].body = <<>>
    /\ DirectivesReturned
    /\ Slice(ret.val, 0, 6) = Rep(":", 4) \o <<"b", "\n">>
    /\ Len(md_calls) = 2

\* ------------------------------------------------------------------------
\* The two passes of render_markdown over the heading events
\* ------------------------------------------------------------------------

HeadingStart(level, id) == [kind |-> "heading_start", level |-> level, id |-> id]

HeadingClose(level) == [kind |-> "heading_end", level |-> level]

\* The locals of collect_headings before the first event.
collect_start == [level |-> 1, explicit_id |-> None, text |-> <<>>,
                  in_heading |-> FALSE, used_ids |-> {}, headings |-> <<>>]

\* Variant of collect_event that appends no entry for a heading without text.
collect_event_skipping_empty(st, event) ==
    IF event.kind = "heading_start"
    THEN [st EXCEPT !.level = event.level, !.explicit_id = event.id,
                    !.text = <<>>, !.in_heading = TRUE]
    ELSE IF event.kind = "heading_end" /\ st.in_heading
    THEN LET raw_id == raw_heading_id(st.explicit_id, st.text)
             id     == deduplicate_id(st.used_ids, raw_id)
         IN  IF st.text = <<>>
             THEN [st EXCEPT !.in_heading = FALSE, !.explicit_id = None]
             ELSE [st EXCEPT !.in_heading = FALSE, !.explicit_id = None,
                             !.text = <<>>,
                             !.used_ids = @ \cup {id},
                             !.headings = Append(@,
                                 [level |-> st.level, id |-> id,
                                  title |-> st.text, raw_id |-> raw_id])]
    ELSE IF st.in_heading
    THEN [st EXCEPT !.text = @ \o push_plain_text(event)]
    ELSE st

\* One iteration of the loop of collect_headings.
collect_event(st, event) ==
    IF event.kind = "heading_start"
    THEN [st EXCEPT !.level = event.level, !.explicit_id = event.id,
                    !.text = <<>>, !.in_heading = TRUE]
    ELSE IF event.kind = "heading_end" /\ st.in_heading
    THEN LET raw_id == raw_heading_id(st.explicit_id, st.text)
             id     == deduplicate_id(st.used_ids, raw_id)
         IN  [st EXCEPT !.in_heading = FALSE, !.explicit_id = None,
                        !.text = <<>>,
                        !.used_ids = @ \cup {id},
                        !.headings = Append(@,
                            [level |-> st.level, id |-> id,
                             title |-> st.text, raw_id |-> raw_id])]
    ELSE IF st.in_heading
    THEN [st EXCEPT !.text = @ \o push_plain_text(event)]
    ELSE st

\* format!("<{} id=\"{}\">", entry.level, escape_html(&entry.id))
heading_open_tag(entry) ==
    <<"<">> \o heading_tag(entry.level) \o <<" ", "i", "d", "=", "\"">>
    \o escape_html(entry.id) \o <<"\"", ">">>

\* format!("</{level}>\n")
heading_close_tag(level) == <<"<", "/">> \o heading_tag(level) \o <<">", "\n">>

\* Both passes read the events the parser yields for the same text: pass 1
\* starts on the stream, pass 2 waits for the headings it returns.
InitPasses(streams) ==
    /\ heading_stream \in streams
    /\ collector = Some([rest |-> heading_stream, st |-> collect_start])
    /\ used_ids = {}
    /\ headings = <<>>
    /\ hpc = "collect"
    /\ heading_index = 0
    /\ md_events = heading_stream
    /\ output_events = <<>>
    /\ paragraph = <<>>
    /\ in_para = FALSE
    /\ para_buf = <<>>
    /\ para_html = None

\* Pass 1 visits its next event.
CollectEvent ==
    /\ hpc = "collect"
    /\ collector # None
    /\ collector.val.rest # <<>>
    /\ collector' = Some([rest |-> Tail(collector.val.rest),
                          st   |-> collect_event(collector.val.st,
                                                 Head(collector.val.rest))])
    /\ UNCHANGED <<headingVars, heading_stream, heading_index, scanVars,
                   renderVars, tocVars, pageVars, paraVars, headVars, buildVars>>

\* The stream has ended: `let headings = collect_headings(content, options)`.
CollectReturn ==
    /\ hpc = "collect"
    /\ collector # None
    /\ collector.val.rest = <<>>
    /\ headings' = collector.val.st.headings
    /\ used_ids' = collector.val.st.used_ids
    /\ hpc' = "transform"
    /\ UNCHANGED <<passVars, scanVars, renderVars, tocVars, pageVars, paraVars,
                   headVars, buildVars>>

\* Event::Start(Tag::Heading): &headings[heading_index] panics when the index
\* is out of bounds; else the opening tag of the entry is written.
WriteHeadingStart ==
    /\ hpc = "transform"
    /\ md_events # <<>>
    /\ Head(md_events).kind = "heading_start"
    /\ IF heading_index < Len(headings)
       THEN /\ heading_index' = heading_index + 1
            /\ output_events' = Append(output_events,
                   Html(heading_open_tag(headings[heading_index + 1])))
            /\ md_events' = Tail(md_events)
            /\ hpc' = hpc
       ELSE /\ hpc' = "panic"
            /\ UNCHANGED <<heading_index, output_events, md_events>>
    /\ UNCHANGED <<used_ids, headings, heading_stream, collector, paragraph,
                   in_para, para_buf, para_html, scanVars, renderVars,
                   tocVars, pageVars, headVars, buildVars>>

\* Event::End(TagEnd::Heading(level))
WriteHeadingEnd ==
    /\ hpc = "transform"
    /\ md_events # <<>>
    /\ Head(md_events).kind = "heading_end"
    /\ output_events' = Append(output_events,
           Html(heading_close_tag(Head(md_events).level)))
    /\ md_events' = Tail(md_events)
    /\ UNCHANGED <<headingVars, passVars, paragraph, in_para, para_buf,
                   para_html, scanVars, renderVars, tocVars, pageVars,
                   headVars, buildVars>>

\* Any other event of a stream without paragraphs passes to the output.
NextPasses ==
    \/ CollectEvent
    \/ CollectReturn
    \/ WriteHeadingStart
    \/ WriteHeadingEnd
    \/ (/\ hpc = "transform"
        /\ md_events # <<>>
        /\ Head(md_events).kind \notin {"heading_start", "heading_end"}
        /\ ParaOther)

\* Largest number of headings and rules of a stream.
MaxStreamItems == 3

\* What the parser yields for a heading with a text, for one without text,
\* for one with an explicit id and a text in two events, and for a rule.
StreamItems ==
    { <<HeadingStart(1, None), Text(<<"F", "o", "o">>), HeadingClose(1)>>,
      <<HeadingStart(2, None), HeadingClose(2)>>,
      <<HeadingStart(3, Some(<<"a", "<", "b">>)), Text(<<"x">>), Text(<<"y">>),
        HeadingClose(3)>>,
      <<Rule>> }

RECURSIVE Flatten(_)
Flatten(seqs) == IF seqs = <<>> THEN <<>> ELSE Head(seqs) \o Flatten(Tail(seqs))

HeadingStreams ==
    { Flatten(items) :
        items \in UNION { [1..k -> StreamItems] : k \in 0..MaxStreamItems } }

InitStreams ==
    /\ ScanIdle /\ RenderIdle /\ TocIdle /\ PageIdle /\ HeadIdle
    /\ InitPasses(HeadingStreams)

\* collect_headings and then pass 2 of render_markdown on every stream.
SpecPasses == InitStreams /\ [][NextPasses]_vars
\* ------------------------------------------------------------------------
\* Heading entries and heading tags
\* ------------------------------------------------------------------------

\* The heading start events among the first k events of the stream.
StartsAmong(k) ==
    SelectSeq(SubSeq(heading_stream, 1, k),
              LAMBDA e : e.kind = "heading_start")

\* The number of events a pass has visited when `rest` is still to visit.
Visited(rest) == Len(heading_stream) - Len(rest)

\* The opening heading tags written so far, in order.
IsOpeningTag(e) ==
    e.kind = "html" /\ Len(e.html) >= 2 /\ e.html[1] = "<" /\ e.html[2] = "h"

TagsWritten == SelectSeq(output_events, IsOpeningTag)

\* C28: pass 1 has appended one entry for every heading it has read to its
\* end, so collect_headings returns one entry per heading of the stream;
\* pass 2 has taken one entry for every heading start it has visited, never
\* finds heading_index out of bounds at a heading start, has written for the
\* i-th heading start the tag with the level and the escaped id of the i-th
\* entry, which is the level of that heading in the stream, and ends with
\* heading_index = headings.len().
C28_OneEntryPerHeading ==
    /\ hpc # "panic"
    /\ hpc = "collect" =>
          LET st == collector.val.st
              k  == Visited(collector.val.rest)
          IN  Len(st.headings)
                  = Len(StartsAmong(k)) - (IF st.in_heading THEN 1 ELSE 0)
    /\ hpc = "transform" =>
          /\ Len(headings) = Len(StartsAmong(Len(heading_stream)))
          /\ heading_index = Len(StartsAmong(Visited(md_events)))
          /\ (md_events # <<>> /\ Head(md_events).kind = "heading_start") =>
                 heading_index < Len(headings)
          /\ Len(TagsWritten) = heading_index
          /\ \A i \in 1..Len(TagsWritten) :
                 /\ TagsWritten[i].html = heading_open_tag(headings[i])
                 /\ headings[i].level = StartsAmong(Len(heading_stream))[i].level
          /\ md_events = <<>> => heading_index = Len(headings)

\* Both passes have ended on a heading without text between two headings,
\* the last with an explicit id that escape_html rewrites.
C28_Witness ==
    /\ hpc = "transform"
    /\ md_events = <<>>
    /\ heading_index = MaxStreamItems
    /\ headings[2].id = <<"s", "e", "c", "t", "i", "o", "n">>
    /\ TagsWritten[3].html
           = <<"<", "h", "3", " ", "i", "d", "=", "\"", "a", "&", "l", "t", ";",
               "b", "\"", ">">>
    /\ TagsWritten[1].html[3] = "1"

\* ------------------------------------------------------------------------
\* C29: what flush_paragraph forwards
\* ------------------------------------------------------------------------

\* The output events written between <p> and </p>.
Flushed ==
    LET open == CHOOSE k \in 1..Len(output_events) :
                    output_events[k] = Html(<<"<p>">>)
    IN  SubSeq(output_events, open + 1, Len(output_events) - 1)

IsInlineImage(e) == e.kind = "html" /\ Head(e.html) = "<img src=\""

\* The events of the paragraph that lie outside every image, in order.
RECURSIVE OutsideImagesFrom(_, _)
OutsideImagesFrom(evs, k) ==
    IF k > Len(evs) THEN <<>>
    ELSE (IF ~is_image_event(evs[k]) /\ ImageDepth(evs, k) = 0
          THEN <<evs[k]>> ELSE <<>>)
         \o OutsideImagesFrom(evs, k + 1)

\* C29: for a paragraph with balanced image events that is not a block
\* image, flush_paragraph writes one inline <img> per outermost image,
\* forwards no image start or end event, and forwards the events outside the
\* images once each, in order.
C29_OneInlineImagePerOutermostImage ==
    (md_events = <<>> /\ ~SoleImage(paragraph)) =>
        /\ Len(SelectSeq(Flushed, IsInlineImage))
               = Len(ImageSourcesFrom(paragraph, 1))
        /\ \A k \in 1..Len(Flushed) : ~is_image_event(Flushed[k])
        /\ SelectSeq(Flushed, LAMBDA e : ~IsInlineImage(e))
               = OutsideImagesFrom(paragraph, 1)

\* ------------------------------------------------------------------------
\* C30: the two attribute tokenizers
\* ------------------------------------------------------------------------

\* Largest number of tokens between the braces.
MaxTwinTokens == 3

\* An id, a class, a bare word, a key=value token, a quoted value with two
\* spaces, a quoted value that ends in an escaped quote, and a value without
\* closing quote.
TwinTokens ==
    { IdToken(<<"i">>),
      ClassToken(<<"c">>),
      BareToken(<<"w">>),
      PairToken(<<"k">>, <<"v">>),
      QuotedToken(TitleKey, <<"a", " ", " ", "b">>, <<"a", " ", " ", "b">>),
      QuotedToken(<<"k">>, <<"a", "\\", "\"">>, <<"a", "\"">>),
      UnclosedToken(TitleKey, <<"a", " ", "b">>, <<"a", " ", "b">>) }

\* The tokens are written one space apart, a tab and a space apart, or
\* directly one after the other.
InitTwin ==
    /\ InitOthersIdle
    /\ InitHead({<<>>, <<"x">>}, TwinTokens, MaxTwinTokens,
                {<<" ">>, <<"\t", " ">>, <<>>})

\* Opening lines whose braces hold quoted and plain tokens, apart or not.
SpecTwin == InitTwin /\ [][NextHead]_vars

\* The text between the braces of an opening line that has braces.
Interior(text) ==
    LET t    == trim(text)
        open == CHOOSE i \in 1..Len(t) :
                    t[i] = "{" /\ \A j \in 1..(i - 1) : t[j] # "{"
    IN  SubSeq(t, open + 1, Len(t) - 1)

HasBraces(text) == contains(text, "{")

\* C30: the pairs parse_attrs reads from the args that parse_pandoc_attrs
\* built are the pairs it reads from the text between the braces.
C30_TokenizersAgree ==
    (directive_head # None /\ HasBraces(head_text)) =>
        parse_attrs(directive_head.val.args) = parse_attrs(Interior(head_text))

\* A quoted value with two spaces, then a key=value token and a class
\* written directly after its closing quote: the args differ from the text
\* between the braces and give the same two pairs.
C30_Witness ==
    /\ directive_head # None
    /\ HasBraces(head_text)
    /\ Interior(head_text)
           = QuotedToken(TitleKey, <<"a", " ", " ", "b">>, <<>>).text
             \o PairToken(<<"k">>, <<"v">>).text
             \o ClassToken(<<"c">>).text
    /\ directive_head.val.args # Interior(head_text)
    /\ parse_attrs(directive_head.val.args)
           = <<[key |-> TitleKey, value |-> <<"a", " ", " ", "b">>],
               [key |-> <<"k">>, value |-> <<"v", ".", "c">>]>>

\* A class, a tab and a space, and a value without closing quote: the class
\* is taken out of the args and the value is the rest of the input.
C30_UnclosedWitness ==
    /\ directive_head # None
    /\ HasBraces(head_text)
    /\ head_tokens = <<ClassToken(<<"c">>),
                       UnclosedToken(TitleKey, <<"a", " ", "b">>, <<"a", " ", "b">>)>>
    /\ contains(head_text, "\t")
    /\ directive_head.val.classes = <<<<"c">>>>
    /\ parse_attrs(directive_head.val.args)
           = <<[key |-> TitleKey, value |-> <<"a", " ", "b">>]>>

====
